---- MODULE Spec2Model ----
(***************************************************************************)
(* A model of reboltdb: the listener (main), the per-connection handler    *)
(* (handleConnection), the SCRAM-SHA-256 handshake (server.DoHandshake),   *)
(* the query dispatcher (queryServer) and the term parser                  *)
(* (query.MakeTermTree).                                                   *)
(*                                                                         *)
(* Strings that the code parses (the SCRAM authentication strings) are     *)
(* sequences of symbols.  The separators "," and "=" are symbols of their  *)
(* own; every other symbol stands for a run of characters that holds no    *)
(* separator ("admin", "biws", a nonce).  The keyed hashes are symbolic:   *)
(* the value computed over a message is a symbol that names the message,   *)
(* so two messages have the same proof only if they are equal.             *)
(***************************************************************************)
EXTENDS Integers, Sequences, FiniteSets, TLC

\* Bounds of the model.
NumConns == 2

Conns == 1..NumConns

\* ------------------------------------------------------------------------
\* Constants of the program.

adminUsername == "admin"
adminPasswordSalt == "6VRzcOVKuS8WWbOKM5Vurw=="
adminPasswordHash == "NsWJkSBxXNSiI1Bh0UWM7UXAE3fId5RR1ZnA7Cldtws="
passwordIterations == 4096

\* ql2.VersionDummy_V1_0 (0x34c2bdc3).
V1_0 == 885177795

\* ql2.Query_QueryType.
Query_START == 1
Query_CONTINUE == 2
Query_STOP == 3
Query_NOREPLY_WAIT == 4
Query_SERVER_INFO == 5

\* ql2.Term_TermType values: DATUM, and the operators of returnTypeMap down to
\* GET_FIELD, the first of those it declares no type for.
Term_DATUM == 1
Term_MAKE_ARRAY == 2
Term_MAKE_OBJ == 3
Term_VAR == 10
Term_JAVASCRIPT == 11
Term_UUID == 169
Term_HTTP == 153
Term_ERROR == 12
Term_IMPLICIT_VAR == 13
Term_DB == 14
Term_TABLE == 15
Term_GET == 16
Term_GET_ALL == 78
Term_EQ == 17
Term_NE == 18
Term_LT == 19
Term_LE == 20
Term_GT == 21
Term_GE == 22
Term_NOT == 23
Term_ADD == 24
Term_SUB == 25
Term_MUL == 26
Term_DIV == 27
Term_MOD == 28
Term_FLOOR == 183
Term_CEIL == 184
Term_ROUND == 185
Term_APPEND == 29
Term_PREPEND == 80
Term_DIFFERENCE == 95
Term_SET_INSERT == 88
Term_SET_INTERSECTION == 89
Term_SET_UNION == 90
Term_SET_DIFFERENCE == 91
Term_SLICE == 30
Term_SKIP == 70
Term_LIMIT == 71
Term_OFFSETS_OF == 87
Term_CONTAINS == 93
Term_GET_FIELD == 31

\* ql2.Term_TermType_name[t]: the name of an operator code, "" for a code the
\* table does not hold.  The codes above are listed.
TermTypeName(t) ==
    CASE t = Term_DATUM -> "DATUM"
      [] t = Term_MAKE_ARRAY -> "MAKE_ARRAY"
      [] t = Term_MAKE_OBJ -> "MAKE_OBJ"
      [] t = Term_VAR -> "VAR"
      [] t = Term_JAVASCRIPT -> "JAVASCRIPT"
      [] t = Term_UUID -> "UUID"
      [] t = Term_HTTP -> "HTTP"
      [] t = Term_ERROR -> "ERROR"
      [] t = Term_IMPLICIT_VAR -> "IMPLICIT_VAR"
      [] t = Term_DB -> "DB"
      [] t = Term_TABLE -> "TABLE"
      [] t = Term_GET -> "GET"
      [] t = Term_GET_ALL -> "GET_ALL"
      [] t = Term_EQ -> "EQ"
      [] t = Term_NE -> "NE"
      [] t = Term_LT -> "LT"
      [] t = Term_LE -> "LE"
      [] t = Term_GT -> "GT"
      [] t = Term_GE -> "GE"
      [] t = Term_NOT -> "NOT"
      [] t = Term_ADD -> "ADD"
      [] t = Term_SUB -> "SUB"
      [] t = Term_MUL -> "MUL"
      [] t = Term_DIV -> "DIV"
      [] t = Term_MOD -> "MOD"
      [] t = Term_FLOOR -> "FLOOR"
      [] t = Term_CEIL -> "CEIL"
      [] t = Term_ROUND -> "ROUND"
      [] t = Term_APPEND -> "APPEND"
      [] t = Term_PREPEND -> "PREPEND"
      [] t = Term_DIFFERENCE -> "DIFFERENCE"
      [] t = Term_SET_INSERT -> "SET_INSERT"
      [] t = Term_SET_INTERSECTION -> "SET_INTERSECTION"
      [] t = Term_SET_UNION -> "SET_UNION"
      [] t = Term_SET_DIFFERENCE -> "SET_DIFFERENCE"
      [] t = Term_SLICE -> "SLICE"
      [] t = Term_SKIP -> "SKIP"
      [] t = Term_LIMIT -> "LIMIT"
      [] t = Term_OFFSETS_OF -> "OFFSETS_OF"
      [] t = Term_CONTAINS -> "CONTAINS"
      [] t = Term_GET_FIELD -> "GET_FIELD"
      [] OTHER -> ""

\* ------------------------------------------------------------------------
\* The strings package, on sequences of symbols.

HasPrefix(s, p) == Len(s) >= Len(p) /\ SubSeq(s, 1, Len(p)) = p

TrimPrefix(s, p) == IF HasPrefix(s, p) THEN SubSeq(s, Len(p) + 1, Len(s)) ELSE s

\* The 0-based index of the first occurrence of sub in s, or -1.
Index(s, sub) ==
    LET hits == {i \in 0..(Len(s) - Len(sub)) : SubSeq(s, i + 1, i + Len(sub)) = sub}
    IN  IF hits = {} THEN -1 ELSE CHOOSE i \in hits : \A j \in hits : i <= j

\* strings.Split(s, sep) for a one-symbol separator: never empty, Split("") = [""].
RECURSIVE Split(_, _)
Split(s, sep) ==
    LET i == Index(s, <<sep>>)
    IN  IF i = -1 THEN <<s>>
        ELSE <<SubSeq(s, 1, i)>> \o Split(SubSeq(s, i + 2, Len(s)), sep)

\* strings.SplitN(s, sep, 2).
SplitN2(s, sep) ==
    LET i == Index(s, <<sep>>)
    IN  IF i = -1 THEN <<s>>
        ELSE <<SubSeq(s, 1, i), SubSeq(s, i + 2, Len(s))>>

\* strings.Join(parts, sep).
RECURSIVE Join(_, _)
Join(parts, sep) ==
    IF parts = <<>> THEN <<>>
    ELSE IF Len(parts) = 1 THEN parts[1]
    ELSE parts[1] \o <<sep>> \o Join(Tail(parts), sep)

\* binary.LittleEndian.Uint32 / Uint64 of a byte sequence.
RECURSIVE LittleEndian(_)
LittleEndian(b) == IF b = <<>> THEN 0 ELSE b[1] + 256 * LittleEndian(Tail(b))

\* ------------------------------------------------------------------------
\* json.Value: a tagged record per variant.  Nil is Go's nil interface value.
\* A Number is a float64.  The model holds it as w * 2^32 + h / 2: h counts
\* halves, so that 1.5 is a number of the model and the conversion to an
\* integer is a truncation, and w counts multiples of 2^32, so that the
\* conversion of that integer to 32 bits is one too.  h / 2 is within int32.

Nil == [t |-> "nil"]
JNull == [t |-> "null"]
JBool(b) == [t |-> "boolean", b |-> b]
JNumber(n) == [t |-> "number", w |-> 0, h |-> 2 * n]
JNumberHalves(h) == [t |-> "number", w |-> 0, h |-> h]
JNumberWide(w, n) == [t |-> "number", w |-> w, h |-> 2 * n]
JString(s) == [t |-> "string", s |-> s]
JArray(a) == [t |-> "array", a |-> a]
JObject(o) == [t |-> "object", o |-> o]

\* The empty map.
EmptyMap == [k \in {} |-> Nil]

\* The predicates: each variant answers true to its own and false to the
\* other five.
IsNull(v) == v.t = "null"
IsBool(v) == v.t = "boolean"
IsNumber(v) == v.t = "number"
IsString(v) == v.t = "string"
IsArray(v) == v.t = "array"
IsObject(v) == v.t = "object"

ValueType(v) == v.t

\* The typed accessors: the zero value unless the variant matches.
AsBool(v) == IF IsBool(v) THEN v.b ELSE FALSE
\* The conversion rounding down.
AsInt64Floor(v) ==
    IF v.t # "number" THEN [w |-> 0, n |-> 0]
    ELSE [w |-> v.w, n |-> v.h \div 2]

\* int64(n) of a float64 truncates toward zero.  An int64 is w * 2^32 + n, n
\* within int32; the numbers of the model with a fraction have w = 0.
AsInt64(v) ==
    IF ~IsNumber(v) THEN [w |-> 0, n |-> 0]
    ELSE [w |-> v.w, n |-> IF v.h >= 0 THEN v.h \div 2 ELSE -((-v.h) \div 2)]

\* The conversion of an int64 to an int32-based type (ql2.Query_QueryType,
\* ql2.Term_TermType): the low 32 bits.
Int32(x) == x.n
\* float64(n): the number itself.
AsFloat64(v) == IF IsNumber(v) THEN [w |-> v.w, h |-> v.h] ELSE [w |-> 0, h |-> 0]
\* AsString answering the text of a number too.
AsStringOfNumber(v) ==
    IF v.t = "string" THEN v.s ELSE IF v.t = "number" THEN "0" ELSE ""

AsString(v) == IF IsString(v) THEN v.s ELSE ""
AsArray(v) == IF IsArray(v) THEN v.a ELSE <<>>
AsObject(v) == IF IsObject(v) THEN v.o ELSE EmptyMap

\* ------------------------------------------------------------------------
\* types.TypeFlag: an int64 used as a set of bits.  A flag is the set of the
\* positions of its bits, so that | is \cup and & is \cap; the highest
\* position is 21, far from the width of the integer.

\* 1 << iota.
Bit(iota) == {iota}

\* t | u | ... over a set of flags; no flag at all gives 0.
BitOr(flags) == UNION flags

Datum == Bit(0)
Sequence == Bit(1)
Database == Bit(2)
Function == Bit(3)
Ordering == Bit(4)
Null == Datum \cup Bit(5)
MinVal == Datum \cup Bit(6)
MaxVal == Datum \cup Bit(7)
Bool == Datum \cup Bit(8)
Number == Datum \cup Bit(9)
String == Datum \cup Bit(10)
Object == Datum \cup Bit(11)
Time == Datum \cup Bit(12)
Binary == Datum \cup Bit(13)
Geometry == Datum \cup Bit(14)
Selection == Object \cup Bit(15)
Array == Datum \cup Sequence \cup Bit(16)
\* A SelectionArray without the bit of Array.
SelectionArrayNoArray == Datum \cup Sequence \cup Bit(17)

SelectionArray == Array \cup Bit(17)
Stream == Sequence \cup Bit(18)
SelectionStream == Stream \cup Bit(19)
TableSlice == SelectionStream \cup Bit(20)
Table == SelectionStream \cup Bit(21)

\* The flag 0: no type.
NoType == BitOr({})

\* The names of the flags; its keys are the flags of the enumeration.
allFlags ==
    [f \in {Datum, Sequence, Database, Function, Ordering, Null, MinVal, MaxVal,
            Bool, Number, String, Object, Time, Binary, Geometry, Selection,
            Array, SelectionArray, Stream, SelectionStream, TableSlice, Table} |->
        CASE f = Datum -> "DATUM"
          [] f = Sequence -> "SEQUENCE"
          [] f = Database -> "DATABASE"
          [] f = Function -> "FUNCTION"
          [] f = Ordering -> "ORDERING"
          [] f = Null -> "NULL"
          [] f = MinVal -> "MINVAL"
          [] f = MaxVal -> "MAXVAL"
          [] f = Bool -> "BOOL"
          [] f = Number -> "NUMBER"
          [] f = String -> "STRING"
          [] f = Object -> "OBJECT"
          [] f = Time -> "PTYPE<TIME>"
          [] f = Binary -> "PTYPE<BINARY>"
          [] f = Geometry -> "PTYPE<GEOMETRY>"
          [] f = Selection -> "SELECTION<OBJECT>"
          [] f = Array -> "ARRAY"
          [] f = SelectionArray -> "SELECTION<ARRAY>"
          [] f = Stream -> "STREAM"
          [] f = SelectionStream -> "SELECTION<STREAM>"
          [] f = TableSlice -> "TABLE_SLICE"
          [] f = Table -> "TABLE"]

\* t & other != 0.
IsSubTypeOfOverlap(t, other) == (t \cap other) # {}

\* other & t == t.
IsSubTypeOfReversed(t, other) == (other \cap t) = t

\* t & other == other.
IsSubTypeOf(t, other) == (t \cap other) = other

\* The pairs the test of IsSubTypeOf expects to be true; every other pair of
\* flags is expected to be false.
expectations ==
    {<<Datum, Datum>>, <<Sequence, Sequence>>, <<Database, Database>>,
     <<Function, Function>>, <<Ordering, Ordering>>,
     <<Null, Datum>>, <<Null, Null>>,
     <<MinVal, Datum>>, <<MinVal, MinVal>>,
     <<MaxVal, Datum>>, <<MaxVal, MaxVal>>,
     <<Bool, Datum>>, <<Bool, Bool>>,
     <<Number, Datum>>, <<Number, Number>>,
     <<String, Datum>>, <<String, String>>,
     <<Object, Datum>>, <<Object, Object>>,
     <<Time, Datum>>, <<Time, Time>>,
     <<Binary, Datum>>, <<Binary, Binary>>,
     <<Geometry, Datum>>, <<Geometry, Geometry>>,
     <<Selection, Datum>>, <<Selection, Object>>, <<Selection, Selection>>,
     <<Array, Datum>>, <<Array, Sequence>>, <<Array, Array>>,
     <<SelectionArray, Datum>>, <<SelectionArray, Sequence>>,
     <<SelectionArray, Array>>, <<SelectionArray, SelectionArray>>,
     <<Stream, Sequence>>, <<Stream, Stream>>,
     <<SelectionStream, Sequence>>, <<SelectionStream, Stream>>,
     <<SelectionStream, SelectionStream>>,
     <<TableSlice, Sequence>>, <<TableSlice, Stream>>,
     <<TableSlice, SelectionStream>>, <<TableSlice, TableSlice>>,
     <<Table, Sequence>>, <<Table, Stream>>,
     <<Table, SelectionStream>>, <<Table, Table>>}

\* ------------------------------------------------------------------------
\* query.Term and query.MakeTermTree.
\*
\* A result is [ok |-> TRUE, term |-> t] or [ok |-> FALSE, errs |-> E]: E holds
\* every error the call may return.  The positional arguments are translated in
\* order, so the first failing one decides; a Go map is ranged over in no fixed
\* order, so any failing entry of the named options may be the one reported.

\* A Term built without its Datum.
TermNoDatum(type, args, optArgs, datum) ==
    [Type |-> type, Args |-> args, OptArgs |-> optArgs, Datum |-> [t |-> "nil"]]

Term(type, args, optArgs, datum) ==
    [Type |-> type, Args |-> args, OptArgs |-> optArgs, Datum |-> datum]

TermOk(t) == [ok |-> TRUE, term |-> t]
TermErr(errs) == [ok |-> FALSE, errs |-> errs]

\* The nested errors handed on as they are.
WrapErrsNoContext(ctx, errs) == errs

\* fmt.Errorf("<context> -> %s", err) over every error of E.
WrapErrs(ctx, errs) == {[msg |-> e.msg, ctx |-> <<ctx>> \o e.ctx] : e \in errs}

RECURSIVE MakeTermTree(_)
RECURSIVE makeObjectTerm(_)

\* makeObjectTerm returning the map as it was made, with no entry.
makeObjectTermNoEntries(object) ==
    LET res == [key \in DOMAIN object |-> MakeTermTree(object[key])]
        bad == {key \in DOMAIN object : ~res[key].ok}
    IN  IF bad # {}
        THEN TermErr(UNION {WrapErrs([kind |-> "obj", key |-> key], res[key].errs) : key \in bad})
        ELSE TermOk(Term(Term_MAKE_OBJ, <<>>, EmptyMap, Nil))

makeObjectTerm(object) ==
    LET res == [key \in DOMAIN object |-> MakeTermTree(object[key])]
        bad == {key \in DOMAIN object : ~res[key].ok}
    IN  IF bad # {}
        THEN TermErr(UNION {WrapErrs([kind |-> "obj", key |-> key], res[key].errs) : key \in bad})
        ELSE TermOk(Term(Term_MAKE_OBJ, <<>>, [key \in DOMAIN object |-> res[key].term], Nil))

MakeTermTree(value) ==
    IF IsObject(value) THEN makeObjectTerm(AsObject(value))
    ELSE IF ~IsArray(value) THEN TermOk(Term(Term_DATUM, <<>>, EmptyMap, value))
    ELSE
    LET termArray == AsArray(value)
        n == Len(termArray)
    IN
    IF n = 0 \/ n > 3
    THEN TermErr({[msg |-> "expected 1 to 3 entries in term array", ctx |-> <<>>]})
    ELSE IF ~IsNumber(termArray[1])
    THEN TermErr({[msg |-> "expected term type to be number", ctx |-> <<>>]})
    ELSE
    LET termType == Int32(AsInt64(termArray[1]))
    IN
    IF n > 1 /\ ~IsArray(termArray[2])
    THEN TermErr({[msg |-> "expected term args to by type array", ctx |-> <<>>]})
    ELSE
    LET argVals == IF n > 1 THEN AsArray(termArray[2]) ELSE <<>>
        argRes == [i \in 1..Len(argVals) |-> MakeTermTree(argVals[i])]
        argBad == {i \in 1..Len(argVals) : ~argRes[i].ok}
    IN
    IF argBad # {}
    THEN LET i == CHOOSE j \in argBad : \A k \in argBad : j <= k
         IN  TermErr(WrapErrs([kind |-> "arg", op |-> TermTypeName(termType), i |-> i - 1],
                             argRes[i].errs))
    ELSE IF n > 2 /\ ~IsObject(termArray[3])
    THEN TermErr({[msg |-> "expected term args to by type object", ctx |-> <<>>]})
    ELSE
    LET optArgVals == IF n > 2 THEN AsObject(termArray[3]) ELSE EmptyMap
        optRes == [key \in DOMAIN optArgVals |-> MakeTermTree(optArgVals[key])]
        optBad == {key \in DOMAIN optArgVals : ~optRes[key].ok}
    IN
    IF optBad # {}
    THEN TermErr(UNION {WrapErrs([kind |-> "optArg", op |-> TermTypeName(termType), key |-> key],
                                 optRes[key].errs) : key \in optBad})
    ELSE TermOk(Term(termType,
                     [i \in 1..Len(argVals) |-> argRes[i].term],
                     [key \in DOMAIN optArgVals |-> optRes[key].term],
                     Nil))

\* ------------------------------------------------------------------------
\* The result type of a term.  A call gives [panic |-> FALSE, type |-> flag],
\* or [panic |-> TRUE, ...] where it calls a method of a nil json.Value.

Returns(flag) == [panic |-> FALSE, type |-> flag]
NilDereference == [panic |-> TRUE, type |-> NoType]

valueType(val) ==
    IF val = Nil THEN NilDereference
    ELSE IF IsNull(val) THEN Returns(Null)
    ELSE IF IsBool(val) THEN Returns(Bool)
    ELSE IF IsNumber(val) THEN Returns(Number)
    ELSE IF IsString(val) THEN Returns(String)
    ELSE IF IsObject(val) THEN Returns(Object)
    ELSE IF IsArray(val) THEN Returns(Array)
    ELSE Returns(NoType)

\* The flags each entry of returnTypeMap joins with |; none where the entry
\* is 0.  The entries after GET_FIELD are all 0, which is also what the lookup
\* of a key the map does not hold gives.
returnTypeOperands ==
    (Term_MAKE_ARRAY :> {Array})
    @@ (Term_MAKE_OBJ :> {Object})
    @@ (Term_VAR :> {Datum})
    @@ (Term_JAVASCRIPT :> {})
    @@ (Term_UUID :> {String})
    @@ (Term_HTTP :> {})
    @@ (Term_ERROR :> {})
    @@ (Term_IMPLICIT_VAR :> {Datum})
    @@ (Term_DB :> {Database})
    @@ (Term_TABLE :> {Table})
    @@ (Term_GET :> {Selection})
    @@ (Term_GET_ALL :> {SelectionStream})
    @@ (Term_EQ :> {Bool})
    @@ (Term_NE :> {Bool})
    @@ (Term_LT :> {Bool})
    @@ (Term_LE :> {Bool})
    @@ (Term_GT :> {Bool})
    @@ (Term_GE :> {Bool})
    @@ (Term_NOT :> {Bool})
    @@ (Term_ADD :> {Number, String, Time})
    @@ (Term_SUB :> {Number, Time})
    @@ (Term_MUL :> {Number, Array})
    @@ (Term_DIV :> {Number})
    @@ (Term_MOD :> {Number})
    @@ (Term_FLOOR :> {Number})
    @@ (Term_CEIL :> {Number})
    @@ (Term_ROUND :> {Number})
    @@ (Term_APPEND :> {Array})
    @@ (Term_PREPEND :> {Array})
    @@ (Term_DIFFERENCE :> {Array})
    @@ (Term_SET_INSERT :> {Array})
    @@ (Term_SET_INTERSECTION :> {Array})
    @@ (Term_SET_UNION :> {Array})
    @@ (Term_SET_DIFFERENCE :> {Array})
    @@ (Term_SLICE :> {String, Binary, Array, Stream, SelectionStream})
    @@ (Term_SKIP :> {Stream, Array})
    @@ (Term_LIMIT :> {Stream, Array})
    @@ (Term_OFFSETS_OF :> {Array})
    @@ (Term_CONTAINS :> {Bool})
    @@ (Term_GET_FIELD :> {})

returnTypeMap == [type \in DOMAIN returnTypeOperands |-> BitOr(returnTypeOperands[type])]

IsDatum(t) == t.Type = Term_DATUM

\* returnType answering for every term from its Datum.
returnTypeDatumOnly(t) == valueType(t.Datum)

returnType(t) ==
    IF IsDatum(t) THEN valueType(t.Datum)
    ELSE Returns(IF t.Type \in DOMAIN returnTypeMap THEN returnTypeMap[t.Type] ELSE NoType)

\* ------------------------------------------------------------------------
\* Errors: a chain of messages, outermost first (fmt.Errorf("...: %s", err));
\* the empty chain is nil.

NoErr == <<>>
Errorf(msg, err) == <<msg>> \o err

\* ------------------------------------------------------------------------
\* The keyed hashes and encodings of the handshake, symbolically: each names
\* what it was computed from.

HMAC(key, msg) == <<"HMAC-SHA256", key, msg>>
SHA256(data) == <<"SHA256", data>>
XorBytes(x, y) == <<"XOR", x, y>>
Base64Decode(str) == <<"base64-decode", str>>
\* base64.StdEncoding.EncodeToString: a string of one symbol, free of separators.
Base64Encode(data) == <<ToString(<<"base64", data>>)>>

\* The base64 encodings of the 18 random bytes the model draws from.
RandomNonces == {"X", "Y"}

\* ------------------------------------------------------------------------
\* What travels on a connection.
\*   [k |-> "bytes", b |-> bytes]    raw bytes (the version magic); fewer than the
\*                                   reader wants means the peer closed after them
\*   [k |-> "json", m |-> message]   a JSON document and its NUL byte
\*   [k |-> "garbage"]               a NUL-terminated payload that is not JSON
\*   [k |-> "frame", ...]            a query frame: token, size, body
\*   [k |-> "unread", n |-> n]       n bytes the server left unread
\*   [k |-> "eof"]                   the peer closed the connection

EOF == [k |-> "eof"]
Garbage == [k |-> "garbage"]
JsonItem(m) == [k |-> "json", m |-> m]

\* A JSON body that json.Parse rejects.
Malformed == [t |-> "malformed"]

\* server.versionMessage as written by writeVersionMessage.
VersionMessage ==
    [success |-> TRUE, min_protocol_version |-> 0, max_protocol_version |-> 0,
     server_version |-> "ReboltDB 0.1.0"]

\* server.serverAuthenticationMessage.
ServerAuthenticationMessage(authentication) ==
    [success |-> TRUE, authentication |-> authentication]

\* server.clientAuthenticationMessage; a field the client leaves out decodes to
\* its zero value.
ClientAuthenticationMessage(version, method, authentication) ==
    [protocol_version |-> version, authentication_method |-> method,
     authentication |-> authentication]

\* ------------------------------------------------------------------------
\* server.scramAuthenticator.

NewAuthenticator ==
    [authMessage |-> <<>>, clientNonce |-> <<>>, serverNonce |-> <<>>,
     serverSignature |-> <<>>]

\* The attribute loop of readClientAuthenticationMessage.
RECURSIVE ScanClientFirst(_, _)
ScanClientFirst(attrs, a) ==
    IF attrs = <<>> THEN [err |-> NoErr, a |-> a]
    ELSE
    LET pair == SplitN2(Head(attrs), "=")
    IN  IF Len(pair) = 2
        THEN IF pair[1] = <<"n">>
             THEN IF pair[2] # <<adminUsername>>
                  THEN [err |-> <<"username must be admin">>, a |-> a]
                  ELSE ScanClientFirst(Tail(attrs), a)
             ELSE IF pair[1] = <<"r">>
             THEN ScanClientFirst(Tail(attrs), [a EXCEPT !.clientNonce = pair[2]])
             ELSE [err |-> <<"invalid authentication attribute key">>, a |-> a]
        ELSE [err |-> <<"invalid authentication attribute">>, a |-> a]

readClientAuthenticationMessage(a, item) ==
    IF item.k = "eof" THEN [err |-> <<"EOF">>, a |-> a]
    ELSE IF item.k # "json"
    THEN [err |-> <<"unable to JSON decode client authentication message">>, a |-> a]
    ELSE
    LET message == item.m
    IN
    IF message.protocol_version # 0
    THEN [err |-> <<"unrecognized protocol version">>, a |-> a]
    ELSE IF message.authentication_method # "SCRAM-SHA-256"
    THEN [err |-> <<"unrecognized authentication method">>, a |-> a]
    ELSE IF ~HasPrefix(message.authentication, <<"n", ",", ",">>)
    THEN [err |-> <<"invalid authentication encoding">>, a |-> a]
    ELSE
    LET a1 == [a EXCEPT !.authMessage = TrimPrefix(message.authentication, <<"n", ",", ",">>)]
    IN  ScanClientFirst(Split(a1.authMessage, ","), a1)

\* The server-first authentication string for the random part rnd.
ServerFirstAuthentication(serverNonce) ==
    Join(<< <<"r", "=">> \o serverNonce,
            <<"s", "=", adminPasswordSalt>>,
            <<"i", "=", ToString(passwordIterations)>> >>, ",")

\* writeServerAuthenticationMessage leaving the auth message as it was.
writeServerAuthenticationMessageNoAppend(a, rnd) ==
    LET serverNonce == a.clientNonce \o <<rnd>>
        message == ServerAuthenticationMessage(ServerFirstAuthentication(serverNonce))
    IN  [a |-> [a EXCEPT !.serverNonce = serverNonce], message |-> message]

\* writeServerAuthenticationMessage with a server nonce of the random part only.
writeServerAuthenticationMessageOwnNonce(a, rnd) ==
    LET serverNonce == <<rnd>>
        message == ServerAuthenticationMessage(ServerFirstAuthentication(serverNonce))
    IN  [a |-> [a EXCEPT !.serverNonce = serverNonce,
                         !.authMessage = a.authMessage \o <<",">> \o message.authentication],
         message |-> message]

\* writeServerAuthenticationMessage up to the write: the authenticator after it
\* and the message to write.
writeServerAuthenticationMessage(a, rnd) ==
    LET serverNonce == a.clientNonce \o <<rnd>>
        message == ServerAuthenticationMessage(ServerFirstAuthentication(serverNonce))
    IN  [a |-> [a EXCEPT !.serverNonce = serverNonce,
                         !.authMessage = a.authMessage \o <<",">> \o message.authentication],
         message |-> message]

\* The client proof and the server signature over an auth message.
ClientKey == HMAC(Base64Decode(adminPasswordHash), "Client Key")
StoredKey == SHA256(ClientKey)
ClientProof(authMessage) == Base64Encode(XorBytes(ClientKey, HMAC(StoredKey, authMessage)))
ServerKey == HMAC(Base64Decode(adminPasswordHash), "Server Key")
ServerSignature(authMessage) == Base64Encode(HMAC(ServerKey, authMessage))

\* The attribute loop comparing r= with the client nonce.
RECURSIVE ScanClientFinalClientNonce(_, _, _, _, _)
ScanClientFinalClientNonce(attrs, a, clientProof, validNonce, validProof) ==
    IF attrs = <<>>
    THEN [err |-> NoErr, validNonce |-> validNonce, validProof |-> validProof]
    ELSE
    LET pair == SplitN2(Head(attrs), "=")
        fail(msg) == [err |-> <<msg>>, validNonce |-> validNonce, validProof |-> validProof]
    IN  IF Len(pair) = 2
        THEN IF pair[1] = <<"r">>
             THEN IF pair[2] # a.clientNonce
                  THEN fail("invalid server nonce")
                  ELSE ScanClientFinalClientNonce(Tail(attrs), a, clientProof, TRUE, validProof)
             ELSE IF pair[1] = <<"p">>
             THEN IF pair[2] # clientProof
                  THEN fail("invalid client proof")
                  ELSE ScanClientFinalClientNonce(Tail(attrs), a, clientProof, validNonce, TRUE)
             ELSE fail("invalid authentication attribute key")
        ELSE fail("invalid authentication attribute")

\* The attribute loop of readClientAuthenticationProof: the error, or which of
\* the two attributes were seen and valid.
RECURSIVE ScanClientFinal(_, _, _, _, _)
ScanClientFinal(attrs, a, clientProof, validNonce, validProof) ==
    IF attrs = <<>>
    THEN [err |-> NoErr, validNonce |-> validNonce, validProof |-> validProof]
    ELSE
    LET pair == SplitN2(Head(attrs), "=")
        fail(msg) == [err |-> <<msg>>, validNonce |-> validNonce, validProof |-> validProof]
    IN  IF Len(pair) = 2
        THEN IF pair[1] = <<"r">>
             THEN IF pair[2] # a.serverNonce
                  THEN fail("invalid server nonce")
                  ELSE ScanClientFinal(Tail(attrs), a, clientProof, TRUE, validProof)
             ELSE IF pair[1] = <<"p">>
             THEN IF pair[2] # clientProof
                  THEN fail("invalid client proof")
                  ELSE ScanClientFinal(Tail(attrs), a, clientProof, validNonce, TRUE)
             ELSE fail("invalid authentication attribute key")
        ELSE fail("invalid authentication attribute")

\* [panic, err, a].  The slice message.Authentication[:strings.Index(...)] is
\* taken before any check of the string: with no ",p=" in it the index is -1 and
\* the slice expression panics.
readClientAuthenticationProof(a, item) ==
    IF item.k = "eof" THEN [panic |-> FALSE, err |-> <<"EOF">>, a |-> a]
    ELSE IF item.k # "json"
    THEN [panic |-> FALSE, a |-> a,
          err |-> <<"unable to JSON decode client authentication proof message">>]
    ELSE
    LET authentication == item.m.authentication
        cut == Index(authentication, <<",", "p", "=">>)
    IN
    IF cut < 0 THEN [panic |-> TRUE, err |-> NoErr, a |-> a]
    ELSE
    LET a1 == [a EXCEPT !.authMessage = a.authMessage \o <<",">> \o SubSeq(authentication, 1, cut)]
        clientProof == ClientProof(a1.authMessage)
    IN
    IF ~HasPrefix(authentication, <<"c", "=", "biws", ",">>)
    THEN [panic |-> FALSE, err |-> <<"invalid authentication encoding">>, a |-> a1]
    ELSE
    LET encodedAttributes == TrimPrefix(authentication, <<"c", "=", "biws", ",">>)
        scan == ScanClientFinal(Split(encodedAttributes, ","), a1, clientProof, FALSE, FALSE)
    IN
    IF scan.err # NoErr THEN [panic |-> FALSE, err |-> scan.err, a |-> a1]
    ELSE IF ~(scan.validNonce /\ scan.validProof)
    THEN [panic |-> FALSE, err |-> <<"invalid authentication attributes">>, a |-> a1]
    ELSE [panic |-> FALSE, err |-> NoErr,
          a |-> [a1 EXCEPT !.serverSignature = ServerSignature(a1.authMessage)]]

\* A last message that reports a failure.
ServerSignatureFailure(a) ==
    [success |-> FALSE, authentication |-> <<"v", "=">> \o a.serverSignature]

\* The message writeServerAuthenticationSignatureMessage writes.
ServerSignatureMessage(a) ==
    ServerAuthenticationMessage(<<"v", "=">> \o a.serverSignature)

\* ------------------------------------------------------------------------
\* The query dispatcher (queryServer).  Each operator gives the error it
\* returns, the queryCache it leaves and the calls it made, in order.

\* startQuery adding the token to the queryCache once it is no duplicate.
startQueryKeepsToken(queryCache, token, value, globalOptArgs) ==
    IF token \in queryCache
    THEN [err |-> <<"duplicate token">>, queryCache |-> queryCache,
          calls |-> <<"startQuery">>]
    ELSE IF ~MakeTermTree(value).ok
    THEN [err |-> <<"unable to parse term tree">>, queryCache |-> queryCache \cup {token},
          calls |-> <<"startQuery", "MakeTermTree">>]
    ELSE [err |-> NoErr, queryCache |-> queryCache \cup {token},
          calls |-> <<"startQuery", "MakeTermTree">>]

startQuery(queryCache, token, value, globalOptArgs) ==
    IF token \in queryCache
    THEN [err |-> <<"duplicate token">>, queryCache |-> queryCache,
          calls |-> <<"startQuery">>]
    ELSE IF ~MakeTermTree(value).ok
    THEN [err |-> <<"unable to parse term tree">>, queryCache |-> queryCache,
          calls |-> <<"startQuery", "MakeTermTree">>]
    ELSE [err |-> NoErr, queryCache |-> queryCache,
          calls |-> <<"startQuery", "MakeTermTree">>]

\* runQuery asking a START query only for its term.
runQueryTermOnly(queryCache, token, queryVal) ==
    LET fail(msg) == [err |-> <<msg>>, queryCache |-> queryCache, calls |-> <<>>]
        queryArray == AsArray(queryVal)
    IN
    IF ~IsArray(queryVal) THEN fail("expected query type to be array")
    ELSE IF Len(queryArray) = 0 \/ Len(queryArray) > 3
    THEN fail("expected 1 to 3 elements in the top-level query")
    ELSE IF ~IsNumber(queryArray[1]) THEN fail("expected query type to be number")
    ELSE IF Len(queryArray) = 3 /\ ~IsObject(queryArray[3])
    THEN fail("expected global optargs to be object")
    ELSE
    LET globalOptArgs == IF Len(queryArray) = 3 THEN AsObject(queryArray[3]) ELSE EmptyMap
        queryType == Int32(AsInt64(queryArray[1]))
    IN
    IF queryType = Query_START
    THEN IF Len(queryArray) < 2
         THEN fail("expected 3 elements in top-level START query")
         ELSE startQuery(queryCache, token, queryArray[2], globalOptArgs)
    ELSE IF queryType \in {Query_CONTINUE, Query_STOP, Query_NOREPLY_WAIT, Query_SERVER_INFO}
    THEN fail("query type not yet implemented")
    ELSE fail("unrecognized QueryType")

runQuery(queryCache, token, queryVal) ==
    LET fail(msg) == [err |-> <<msg>>, queryCache |-> queryCache, calls |-> <<>>]
        queryArray == AsArray(queryVal)
    IN
    IF ~IsArray(queryVal) THEN fail("expected query type to be array")
    ELSE IF Len(queryArray) = 0 \/ Len(queryArray) > 3
    THEN fail("expected 1 to 3 elements in the top-level query")
    ELSE IF ~IsNumber(queryArray[1]) THEN fail("expected query type to be number")
    ELSE IF Len(queryArray) = 3 /\ ~IsObject(queryArray[3])
    THEN fail("expected global optargs to be object")
    ELSE
    LET globalOptArgs == IF Len(queryArray) = 3 THEN AsObject(queryArray[3]) ELSE EmptyMap
        queryType == Int32(AsInt64(queryArray[1]))
    IN
    IF queryType = Query_START
    THEN IF Len(queryArray) # 3
         THEN fail("expected 3 elements in top-level START query")
         ELSE startQuery(queryCache, token, queryArray[2], globalOptArgs)
    ELSE IF queryType \in {Query_CONTINUE, Query_STOP, Query_NOREPLY_WAIT, Query_SERVER_INFO}
    THEN fail("query type not yet implemented")
    ELSE fail("unrecognized QueryType")

\* The error of an io.ReadFull that met the end of the stream after n bytes.
ReadFullError(n) == IF n = 0 THEN <<"EOF">> ELSE <<"unexpected EOF">>

\* What json.Parse makes of the first size bytes of the body of a frame: a
\* proper prefix of the text of a JSON array is no JSON document.
QueryBuf(item, size) == IF size = item.sent THEN item.body ELSE Malformed

\* One pass of the loop reading the whole body that was sent, whatever the
\* size field says.
handleQueryWholeBody(queryCache, item) ==
    LET stop(msg, err, read) ==
            [err |-> Errorf(msg, err), queryCache |-> queryCache, ran |-> FALSE,
             read |-> read, token |-> 0]
    IN
    IF item.k # "frame" THEN stop("unable to read query token into buffer", ReadFullError(0), 0)
    ELSE IF Len(item.token) < 8
    THEN stop("unable to read query token into buffer", ReadFullError(Len(item.token)),
              Len(item.token))
    ELSE IF Len(item.size) < 4
    THEN stop("unable to read query size into buffer", ReadFullError(Len(item.size)),
              8 + Len(item.size))
    ELSE
    LET token == LittleEndian(item.token)
        queryVal == item.body
    IN
    IF queryVal = Malformed THEN stop("unable to JSON parse query", NoErr, 12 + item.sent)
    ELSE
    LET r == runQuery(queryCache, token, queryVal)
    IN  [err |-> IF r.err = NoErr THEN NoErr ELSE Errorf("unable to handle query", r.err),
         queryCache |-> r.queryCache, ran |-> TRUE, read |-> 12 + item.sent, token |-> token]

\* One pass of the loop of handleQueries over the frame at the head of the
\* stream: the error it returns (nil after a request that was handled), the
\* queryCache it leaves, whether runQuery was reached and with which token, and
\* the number of bytes the three reads took off the stream.
handleQuery(queryCache, item) ==
    LET stop(msg, err, read) ==
            [err |-> Errorf(msg, err), queryCache |-> queryCache, ran |-> FALSE,
             read |-> read, token |-> 0]
    IN
    IF item.k # "frame" THEN stop("unable to read query token into buffer", ReadFullError(0), 0)
    ELSE IF Len(item.token) < 8
    THEN stop("unable to read query token into buffer", ReadFullError(Len(item.token)),
              Len(item.token))
    ELSE IF Len(item.size) < 4
    THEN stop("unable to read query size into buffer", ReadFullError(Len(item.size)),
              8 + Len(item.size))
    ELSE
    LET token == LittleEndian(item.token)
        size == LittleEndian(item.size)
    IN
    IF item.sent < size
    THEN stop("unable to read query into buffer", ReadFullError(item.sent), 12 + item.sent)
    ELSE
    LET queryVal == QueryBuf(item, size)
    IN
    IF queryVal = Malformed THEN stop("unable to JSON parse query", NoErr, 12 + size)
    ELSE
    LET r == runQuery(queryCache, token, queryVal)
    IN  [err |-> IF r.err = NoErr THEN NoErr ELSE Errorf("unable to handle query", r.err),
         queryCache |-> r.queryCache, ran |-> TRUE, read |-> 12 + size, token |-> token]

\* ------------------------------------------------------------------------
\* The state.

VARIABLES
    proc,        \* the server process: "running", or how it ended: "fatal" (log.Fatalf)
                 \* or "panic"
    pc,          \* per connection: where its handler stands
    inbuf,       \* per connection: what the client sent and the server has not read
    out,         \* per connection: what the server wrote and the client has not read
    auth,        \* per connection: the scramAuthenticator of DoHandshake
    queryCache,  \* per connection: queryServer.queryCache
    trace,       \* per connection: the phases completed, in order
    results,     \* per connection: the requests handed to runQuery and their errors
    herr,        \* per connection: the error the handler logged
    db,          \* the store main opened: "open", or "closed" once db.Close() ran
    value,       \* the input of a function applied on its own: a json.Value, or
                 \* two type flags
    applied      \* what that call returned

vars == <<proc, pc, inbuf, out, auth, queryCache, trace, results, herr, db, value, applied>>

\* No call made yet.
NotApplied == [fn |-> "none"]

\* The server after construction: listening, no connection accepted.
ServerInit ==
    /\ proc = "running"
    /\ pc = [c \in Conns |-> "idle"]
    /\ inbuf = [c \in Conns |-> <<>>]
    /\ out = [c \in Conns |-> <<>>]
    /\ auth = [c \in Conns |-> NewAuthenticator]
    /\ queryCache = [c \in Conns |-> {}]
    /\ trace = [c \in Conns |-> <<>>]
    /\ results = [c \in Conns |-> <<>>]
    /\ herr = [c \in Conns |-> NoErr]
    /\ db = "open"

Init ==
    /\ ServerInit
    /\ value = JNull
    /\ applied = NotApplied

\* A handler that has been started and has not returned.
InFlight(c) == pc[c] \notin {"idle", "closed", "killed"}

\* The process ends (log.Fatalf, or a panic no one recovers): every handler
\* stops where it stands and its memory is gone.  The deferred calls of the
\* panicking goroutine run before the process ends (unwinding: the handlers
\* of that set); no other deferred call runs.
ProcessExit(how, unwinding) ==
    /\ proc' = how
    /\ pc' = [c \in Conns |-> IF c \in unwinding THEN "closed"
                              ELSE IF InFlight(c) THEN "killed" ELSE pc[c]]
    /\ inbuf' = [c \in Conns |-> IF InFlight(c) THEN <<>> ELSE inbuf[c]]
    /\ out' = [c \in Conns |-> IF InFlight(c) THEN <<>> ELSE out[c]]
    /\ auth' = [c \in Conns |-> NewAuthenticator]
    /\ queryCache' = [c \in Conns |-> {}]
    /\ UNCHANGED <<trace, results, herr>>

\* The handler of c returning with no deferred conn.Close().
ReturnNoClose(c, err) ==
    /\ pc' = [pc EXCEPT ![c] = "returned"]
    /\ herr' = [herr EXCEPT ![c] = err]
    /\ auth' = [auth EXCEPT ![c] = NewAuthenticator]
    /\ queryCache' = [queryCache EXCEPT ![c] = {}]

\* The handler of c returns with err (nil included): the deferred conn.Close()
\* runs, and the handler's locals are gone.
Return(c, err) ==
    /\ pc' = [pc EXCEPT ![c] = "closed"]
    /\ herr' = [herr EXCEPT ![c] = err]
    /\ auth' = [auth EXCEPT ![c] = NewAuthenticator]
    /\ queryCache' = [queryCache EXCEPT ![c] = {}]

\* handleConnection logging the handshake error and going on to the query loop.
HandshakeErrorNoReturn(c, msg, err) ==
    /\ pc' = [pc EXCEPT ![c] = "handleQueries"]
    /\ herr' = [herr EXCEPT ![c] = Errorf("unable to perform handshake", Errorf(msg, err))]
    /\ auth' = [auth EXCEPT ![c] = NewAuthenticator]
    /\ queryCache' = [queryCache EXCEPT ![c] = {}]

HandshakeError(c, msg, err) ==
    Return(c, Errorf("unable to perform handshake", Errorf(msg, err)))

\* ------------------------------------------------------------------------
\* What the clients of the model send.  The client of connection 1 draws from
\* every input listed here; the clients of the other connections draw from a
\* few of them: one the server accepts, one it rejects, and in the client-final
\* the one without a proof.

Thorough(c) == c = 1

\* What rand.Reader gives the handler of c: either value on connection 1, one
\* of them on the others.
RandomNoncesOf(c) == IF Thorough(c) THEN RandomNonces ELSE {"X"}

\* The version magic: V1_0 in little-endian order, two other values, and a
\* peer that closes after two bytes.
MagicBytes(b) == [k |-> "bytes", b |-> b]
GoodMagic == MagicBytes(<<195, 189, 194, 52>>)

MagicItems(c) ==
    {GoodMagic, MagicBytes(<<0, 0, 0, 0>>)}
    \cup
    IF Thorough(c)
    THEN {MagicBytes(<<194, 189, 194, 52>>), MagicBytes(<<195, 189>>), EOF}
    ELSE {}

ClientNonces == {<<"a">>, <<"b">>}

ClientFirst(body) ==
    JsonItem(ClientAuthenticationMessage(0, "SCRAM-SHA-256", <<"n", ",", ",">> \o body))

\* The client-first message of a client that follows the protocol.
GoodClientFirst(nonce) ==
    ClientFirst(<<"n", "=", "admin", ",", "r", "=">> \o nonce)

ClientFirsts(c) ==
    {GoodClientFirst(<<"a">>),
     ClientFirst(<<"n", "=", "bob", ",", "r", "=", "a">>)}             \* another user
    \cup
    IF ~Thorough(c) THEN {}
    ELSE
    {GoodClientFirst(nonce) : nonce \in ClientNonces}
    \cup
    {ClientFirst(<<"r", "=", "a">>),                                   \* no n=
     ClientFirst(<<"n", "=", "admin">>),                               \* no r=
     ClientFirst(<<"n", "=", "admin", ",", "r", "=", "a", ",", "x", "=", "1">>),
     ClientFirst(<<"n", "=", "admin", ",", "r", "=", "a", ",", "junk">>),
     ClientFirst(<<>>),                                                \* an empty body
     JsonItem(ClientAuthenticationMessage(0, "SCRAM-SHA-256",
                  <<"y", ",", ",", "n", "=", "admin", ",", "r", "=", "a">>)),
     JsonItem(ClientAuthenticationMessage(0, "SCRAM-SHA-1",
                  <<"n", ",", ",", "n", "=", "admin", ",", "r", "=", "a">>)),
     JsonItem(ClientAuthenticationMessage(1, "SCRAM-SHA-256",
                  <<"n", ",", ",", "n", "=", "admin", ",", "r", "=", "a">>)),
     Garbage,
     EOF}

ClientFinal(authentication) ==
    JsonItem(ClientAuthenticationMessage(0, "", authentication))

\* A client-final authentication string: the part without the proof, then the
\* proof the holder of the password computes over the auth message that part
\* completes.  A client knows the auth message so far: it sent the client-first
\* body and received the server-first string.
WithProof(authMessage, withoutProof) ==
    withoutProof \o <<",", "p", "=">> \o ClientProof(authMessage \o <<",">> \o withoutProof)

ChannelBinding == <<"c", "=", "biws">>

\* The client-final message of a client that follows the protocol.
GoodClientFinal(a) ==
    ClientFinal(WithProof(a.authMessage, ChannelBinding \o <<",", "r", "=">> \o a.serverNonce))

\* The proof of another auth message.
WrongProofFinal(a) ==
    ClientFinal(ChannelBinding \o <<",", "r", "=">> \o a.serverNonce
                \o <<",", "p", "=">> \o ClientProof(a.authMessage))

\* No p= attribute.
NoProofFinal(a) ==
    ClientFinal(ChannelBinding \o <<",", "r", "=">> \o a.serverNonce)

ClientFinals(c, a) ==
    {GoodClientFinal(a), WrongProofFinal(a), NoProofFinal(a)}
    \cup
    IF ~Thorough(c) THEN {}
    ELSE
    LET base == ChannelBinding \o <<",", "r", "=">> \o a.serverNonce
    IN
    {\* another server nonce, the proof computed over what is sent
     ClientFinal(WithProof(a.authMessage,
                           ChannelBinding \o <<",", "r", "=">> \o a.clientNonce \o <<"Z">>)),
     \* another channel-binding prefix
     ClientFinal(WithProof(a.authMessage, <<"c", "=", "biwt", ",", "r", "=">> \o a.serverNonce)),
     \* no r=
     ClientFinal(WithProof(a.authMessage, ChannelBinding)),
     \* p= before r=
     ClientFinal(ChannelBinding \o <<",", "p", "=">>
                 \o ClientProof(a.authMessage \o <<",">> \o ChannelBinding)
                 \o <<",", "r", "=">> \o a.serverNonce),
     \* an unknown key, with a proof and without; an attribute that is no pair
     ClientFinal(WithProof(a.authMessage, base \o <<",", "x", "=", "1">>)),
     ClientFinal(base \o <<",", "x", "=", "1">>),
     ClientFinal(WithProof(a.authMessage, base \o <<",", "junk">>)),
     Garbage,
     EOF}

\* Query frames.  The bodies: [1,1,{}], [1,[],{}], [2], and a text that is no
\* JSON document.
StartDatumBody == JArray(<<JNumber(1), JNumber(1), JObject(EmptyMap)>>)
StartBadTermBody == JArray(<<JNumber(1), JArray(<<>>), JObject(EmptyMap)>>)
ContinueBody == JArray(<<JNumber(2)>>)

\* The number of bytes of the text of a body.
BodyLen(body) ==
    CASE body = StartDatumBody -> 8
      [] body = StartBadTermBody -> 9
      [] body = ContinueBody -> 3
      [] OTHER -> 1

TokenBytes(n) == <<n, 0, 0, 0, 0, 0, 0, 0>>
SizeBytes(n) == <<n, 0, 0, 0>>

\* What a client sent of a frame: the bytes of the token and of the size, the
\* number of body bytes, and the value the whole body is the text of.  A frame
\* with fewer bytes than its size field asks for is the last thing its client
\* sent before it closed the connection.
FrameOf(token, size, sent, body) ==
    [k |-> "frame", token |-> token, size |-> size, sent |-> sent, body |-> body]

\* A frame as the protocol has it.
Frame(token, body) == FrameOf(token, SizeBytes(BodyLen(body)), BodyLen(body), body)

FrameBytes(item) == Len(item.token) + Len(item.size) + item.sent

\* The client closed before the frame was whole.
Short(item) ==
    IF Len(item.token) < 8 THEN TRUE
    ELSE IF Len(item.size) < 4 THEN TRUE
    ELSE item.sent < LittleEndian(item.size)

Frames(c) ==
    {Frame(TokenBytes(42), StartDatumBody),
     Frame(TokenBytes(42), ContinueBody)}
    \cup
    IF ~Thorough(c) THEN {}
    ELSE
    {Frame(TokenBytes(7), StartDatumBody),
     Frame(TokenBytes(42), StartBadTermBody),
     Frame(TokenBytes(42), Malformed),
     \* closed within the token, within the size, within the body
     FrameOf(<<42, 0, 0>>, <<>>, 0, Malformed),
     FrameOf(TokenBytes(42), <<8, 0>>, 0, Malformed),
     FrameOf(TokenBytes(42), SizeBytes(8), 5, Malformed),
     \* a size of 3 before [1,1,{}], and of 8 before [1,[],{}]
     FrameOf(TokenBytes(42), SizeBytes(3), 8, StartDatumBody),
     FrameOf(TokenBytes(42), SizeBytes(8), 9, StartBadTermBody),
     EOF}

\* ------------------------------------------------------------------------
\* The clients.  A client sends when the server has read all it sent before:
\* it reads the server's reply, if any, and sends its next message.  Once the
\* handshake is over it sends query frames, the next one when the server has
\* read the last, and it learns that the server closed the connection only
\* after it sent one more.  A client that closed sends nothing more.

ClientSend(c, item) ==
    /\ proc = "running"
    /\ inbuf[c] = <<>>
    /\ inbuf' = [inbuf EXCEPT ![c] = <<item>>]
    /\ out' = [out EXCEPT ![c] = <<>>]
    /\ UNCHANGED <<proc, pc, auth, queryCache, trace, results, herr, db, value, applied>>

ClientSendMagic(c) ==
    /\ pc[c] = "readVersion"
    /\ \E item \in MagicItems(c) : ClientSend(c, item)

ClientSendFirst(c) ==
    /\ pc[c] = "readClientAuth"
    /\ \E item \in ClientFirsts(c) : ClientSend(c, item)

ClientSendFinal(c) ==
    /\ pc[c] = "readClientProof"
    /\ \E item \in ClientFinals(c, auth[c]) : ClientSend(c, item)

Authenticated(c) ==
    Len(trace[c]) >= 6 /\ trace[c][6] = "serverFinal"

ClientSendFrame(c) ==
    /\ pc[c] \in {"handleQueries", "closed"}
    /\ Authenticated(c)
    /\ \E item \in Frames(c) : ClientSend(c, item)

\* The server's reader takes what it read off the connection; the end of the
\* stream stays.
Consume(c) ==
    inbuf' = [inbuf EXCEPT ![c] = IF Head(@).k = "eof" THEN @ ELSE Tail(@)]

\* What is left of a frame after read bytes of it were read: the bytes not
\* read, or the end of the stream after a frame that was cut short.
Unread(item, read) ==
    IF item.k # "frame" THEN <<item>>
    ELSE IF read < FrameBytes(item) THEN <<[k |-> "unread", n |-> FrameBytes(item) - read]>>
    ELSE IF Short(item) THEN <<EOF>>
    ELSE <<>>

ConsumeFrame(c, read) ==
    inbuf' = [inbuf EXCEPT ![c] = Unread(Head(@), read) \o Tail(@)]

\* ------------------------------------------------------------------------
\* The listener (main).

\* listener.Accept() returns a connection: go handleConnection(conn, db).
Accept ==
    /\ proc = "running"
    /\ \E c \in Conns :
        /\ pc[c] = "idle"
        /\ \A d \in Conns : d < c => pc[d] # "idle"
        /\ pc' = [pc EXCEPT ![c] = "readVersion"]
    /\ UNCHANGED <<proc, inbuf, out, auth, queryCache, trace, results, herr, db, value, applied>>

\* listener.Accept() returns an error and main returns it: the deferred
\* listener.Close() and db.Close() run before the process ends.
AcceptErrorReturns ==
    /\ proc = "running"
    /\ ProcessExit("fatal", {})
    /\ db' = "closed"
    /\ UNCHANGED <<value, applied>>

\* listener.Accept() returns an error: log.Fatalf, which ends the process with
\* no deferred call run.
AcceptError ==
    /\ proc = "running"
    /\ ProcessExit("fatal", {})
    /\ UNCHANGED <<db, value, applied>>

\* ------------------------------------------------------------------------
\* The handler of one connection (handleConnection): DoHandshake step by step,
\* then handleQueries.  Every step that ends the handler runs the deferred
\* conn.Close().

Done(c, phase) == trace' = [trace EXCEPT ![c] = Append(@, phase)]

\* The read of the version magic without its check.
ReadVersionNoCheck(c) ==
    /\ proc = "running" /\ pc[c] = "readVersion" /\ inbuf[c] # <<>>
    /\ UNCHANGED <<db, value, applied>>
    /\ LET item == Head(inbuf[c])
       IN  /\ Consume(c)
           /\ IF item.k # "bytes" \/ Len(item.b) < 4
              THEN /\ HandshakeError(c, "unable to read version magic number into buffer", <<"EOF">>)
                   /\ UNCHANGED trace
              ELSE /\ pc' = [pc EXCEPT ![c] = "writeVersion"]
                   /\ Done(c, "magic")
                   /\ UNCHANGED <<auth, queryCache, herr>>
    /\ UNCHANGED <<proc, out, results>>

\* io.ReadFull of the 4-byte version magic, and its check.
ReadVersion(c) ==
    /\ proc = "running" /\ pc[c] = "readVersion" /\ inbuf[c] # <<>>
    /\ UNCHANGED <<db, value, applied>>
    /\ LET item == Head(inbuf[c])
       IN  /\ Consume(c)
           /\ IF item.k # "bytes" \/ Len(item.b) < 4
              THEN /\ HandshakeError(c, "unable to read version magic number into buffer", <<"EOF">>)
                   /\ UNCHANGED trace
              ELSE IF LittleEndian(item.b) # V1_0
              THEN /\ HandshakeError(c, "unrecognized version magic number", NoErr)
                   /\ UNCHANGED trace
              ELSE /\ pc' = [pc EXCEPT ![c] = "writeVersion"]
                   /\ Done(c, "magic")
                   /\ UNCHANGED <<auth, queryCache, herr>>
    /\ UNCHANGED <<proc, out, results>>

\* conn.Write of one message: it is written, or the write fails.
WriteOk(c, message) == out' = [out EXCEPT ![c] = Append(@, JsonItem(message))]

WriteVersion(c) ==
    /\ proc = "running" /\ pc[c] = "writeVersion"
    /\ UNCHANGED <<db, value, applied>>
    /\ \/ /\ WriteOk(c, VersionMessage)
          /\ pc' = [pc EXCEPT ![c] = "readClientAuth"]
          /\ auth' = [auth EXCEPT ![c] = NewAuthenticator]
          /\ Done(c, "greeting")
          /\ UNCHANGED <<queryCache, herr>>
       \/ /\ HandshakeError(c, "unable to write version message", <<"write error">>)
          /\ UNCHANGED <<out, trace>>
    /\ UNCHANGED <<proc, inbuf, results>>

ReadClientAuth(c) ==
    /\ proc = "running" /\ pc[c] = "readClientAuth" /\ inbuf[c] # <<>>
    /\ UNCHANGED <<db, value, applied>>
    /\ LET r == readClientAuthenticationMessage(auth[c], Head(inbuf[c]))
       IN  /\ Consume(c)
           /\ IF r.err # NoErr
              THEN /\ HandshakeError(c, "unable to read client authentication message", r.err)
                   /\ UNCHANGED trace
              ELSE /\ pc' = [pc EXCEPT ![c] = "writeServerAuth"]
                   /\ auth' = [auth EXCEPT ![c] = r.a]
                   /\ Done(c, "clientFirst")
                   /\ UNCHANGED <<queryCache, herr>>
    /\ UNCHANGED <<proc, out, results>>

WriteServerAuth(c) ==
    /\ proc = "running" /\ pc[c] = "writeServerAuth"
    /\ UNCHANGED <<db, value, applied>>
    /\ \/ \E rnd \in RandomNoncesOf(c) :
            LET w == writeServerAuthenticationMessage(auth[c], rnd)
            IN  /\ WriteOk(c, w.message)
                /\ auth' = [auth EXCEPT ![c] = w.a]
                /\ pc' = [pc EXCEPT ![c] = "readClientProof"]
                /\ Done(c, "serverFirst")
                /\ UNCHANGED <<queryCache, herr>>
       \/ /\ HandshakeError(c, "unable to write server authentication message", <<"write error">>)
          /\ UNCHANGED <<out, trace>>
    /\ UNCHANGED <<proc, inbuf, results>>

ReadClientProof(c) ==
    /\ proc = "running" /\ pc[c] = "readClientProof" /\ inbuf[c] # <<>>
    /\ UNCHANGED <<db, value, applied>>
    /\ LET r == readClientAuthenticationProof(auth[c], Head(inbuf[c]))
       IN  IF r.panic
           THEN ProcessExit("panic", {c})
           ELSE /\ Consume(c)
                /\ IF r.err # NoErr
                   THEN /\ HandshakeError(c, "unable to read client authentication proof", r.err)
                        /\ UNCHANGED trace
                   ELSE /\ pc' = [pc EXCEPT ![c] = "writeServerSig"]
                        /\ auth' = [auth EXCEPT ![c] = r.a]
                        /\ Done(c, "clientFinal")
                        /\ UNCHANGED <<queryCache, herr>>
                /\ UNCHANGED <<proc, out, results>>

\* The last step of DoHandshake; on success handleConnection builds the
\* queryServer with an empty queryCache and calls handleQueries.
WriteServerSig(c) ==
    /\ proc = "running" /\ pc[c] = "writeServerSig"
    /\ UNCHANGED <<db, value, applied>>
    /\ \/ /\ WriteOk(c, ServerSignatureMessage(auth[c]))
          /\ pc' = [pc EXCEPT ![c] = "handleQueries"]
          /\ auth' = [auth EXCEPT ![c] = NewAuthenticator]
          /\ queryCache' = [queryCache EXCEPT ![c] = {}]
          /\ Done(c, "serverFinal")
          /\ UNCHANGED herr
       \/ /\ HandshakeError(c, "unable to write server authentication signature", <<"write error">>)
          /\ UNCHANGED <<out, trace>>
    /\ UNCHANGED <<proc, inbuf, results>>

\* handleQueries over one queryCache for all connections, which holds the
\* tokens of the requests handled so far.
HandleQueriesSharedCache(c) ==
    /\ proc = "running" /\ pc[c] = "handleQueries" /\ inbuf[c] # <<>>
    /\ UNCHANGED <<db, value, applied>>
    /\ LET item == Head(inbuf[c])
           handled == UNION {{results[d][i] : i \in 1..Len(results[d])} : d \in Conns}
           r == handleQuery({LittleEndian(e.item.token) : e \in handled}, item)
       IN  /\ ConsumeFrame(c, r.read)
           /\ IF r.ran
              THEN /\ results' = [results EXCEPT
                                    ![c] = Append(@, [item |-> item, token |-> r.token,
                                                      err |-> r.err,
                                                      live |-> r.queryCache])]
                   /\ Done(c, "query")
              ELSE UNCHANGED <<results, trace>>
           /\ Return(c, IF r.err = NoErr THEN NoErr
                        ELSE Errorf("unable to handle queries", r.err))
    /\ UNCHANGED <<proc, out>>

\* handleQueries: the reads of one frame, json.Parse, runQuery, and the return
\* that follows them in every case.  results records each request handed to
\* runQuery with the error it returned and the queryCache it left.
HandleQueries(c) ==
    /\ proc = "running" /\ pc[c] = "handleQueries" /\ inbuf[c] # <<>>
    /\ UNCHANGED <<db, value, applied>>
    /\ LET item == Head(inbuf[c])
           r == handleQuery(queryCache[c], item)
       IN  /\ ConsumeFrame(c, r.read)
           /\ IF r.ran
              THEN /\ results' = [results EXCEPT
                                    ![c] = Append(@, [item |-> item, token |-> r.token,
                                                      err |-> r.err,
                                                      live |-> r.queryCache])]
                   /\ Done(c, "query")
              ELSE UNCHANGED <<results, trace>>
           /\ Return(c, IF r.err = NoErr THEN NoErr
                        ELSE Errorf("unable to handle queries", r.err))
    /\ UNCHANGED <<proc, out>>

Next ==
    \/ Accept
    \/ AcceptError
    \/ \E c \in Conns :
        \/ ClientSendMagic(c)
        \/ ClientSendFirst(c)
        \/ ClientSendFinal(c)
        \/ ClientSendFrame(c)
        \/ ReadVersion(c)
        \/ WriteVersion(c)
        \/ ReadClientAuth(c)
        \/ WriteServerAuth(c)
        \/ ReadClientProof(c)
        \/ WriteServerSig(c)
        \/ HandleQueries(c)

Spec == Init /\ [][Next]_vars

\* ------------------------------------------------------------------------
\* The term parser and the dispatcher on their own: a JSON value is drawn, and
\* MakeTermTree or runQuery (of a connection that has accepted no query yet)
\* is applied to it.

\* The most entries in the positional-argument array of a drawn term array.
MaxArgs == 2

Keys == {"a", "b"}
Tokens == {7, 42}

\* null, true, false, 0, 1, 1.5, -1.5, -2 and "foo".
Scalars ==
    {JNull, JBool(TRUE), JBool(FALSE), JNumber(0), JNumber(1), JNumberHalves(3),
     JNumberHalves(-3), JNumber(-2), JString("foo")}

\* The values nested in the drawn arrays and objects: scalars, terms that
\* translate ([1], [15], {}, [15,[[1.5]]]) and terms that do not ([], ["x"],
\* [15,[[]]]).
Inner ==
    {JNull, JNumber(1), JString("foo"),
     JArray(<<JNumber(1)>>),
     JArray(<<JNumber(15)>>),
     JObject(EmptyMap),
     JArray(<<JNumber(15), JArray(<<JArray(<<JNumberHalves(3)>>)>>)>>),
     JArray(<<>>),
     JArray(<<JString("x")>>),
     JArray(<<JNumber(15), JArray(<<JArray(<<>>)>>)>>)}

\* A few of them, for the named options.
InnerOpts == {JNumber(1), JArray(<<JNumber(15)>>), JArray(<<>>), JArray(<<JString("x")>>)}

SeqsUpTo(S, n) == UNION {[1..k -> S] : k \in 0..n}
MapsOver(K, S) == UNION {[D -> S] : D \in SUBSET K}

\* Operator codes and query types: 0..5, JAVASCRIPT, ERROR, DB, TABLE, ADD,
\* codes no table holds, numbers with a fraction (1.5, 15.5, -1.5), and
\* 2^32 + 1 and 2^32 + 2.
Tags ==
    {JNumber(n) : n \in {0, 1, 2, 3, 4, 5, 6, 11, 12, 14, 15, 24, 999, -1}}
    \cup {JNumberHalves(3), JNumberHalves(31), JNumberHalves(-3)}
    \cup {JNumberWide(1, 1), JNumberWide(1, 2)}

ArgArrays == {JArray(q) : q \in SeqsUpTo(Inner, MaxArgs)}

\* [15,[[14,["db"]],"users"]] and the START query of it.
TableLookupTerm ==
    JArray(<<JNumber(15),
             JArray(<<JArray(<<JNumber(14), JArray(<<JString("db")>>)>>), JString("users")>>)>>)
TableLookupBody == JArray(<<JNumber(1), TableLookupTerm, JObject(EmptyMap)>>)
OptObjects == {JObject(m) : m \in MapsOver(Keys, InnerOpts)}

Values ==
    Scalars
    \cup {JObject(m) : m \in MapsOver(Keys, Inner)}
    \cup {JArray(<<>>)}
    \cup {JArray(<<t>>) : t \in Tags \cup {JString("x"), JNull, JArray(<<>>)}}
    \cup {JArray(<<t, a>>) :
            t \in Tags, a \in ArgArrays \cup {JNumber(2), JObject(EmptyMap), JString("foo")}}
    \cup {JArray(<<t, a, o>>) :
            t \in Tags,
            a \in {JArray(q) : q \in SeqsUpTo(InnerOpts, 1)} \cup {JNumber(1), JNull},
            o \in OptObjects \cup {JArray(<<>>), JNull}}
    \cup {TableLookupTerm, TableLookupBody}
    \cup {JArray(<<JString("x"), JNull, JNull>>),
          JArray(<<JNumber(1), JArray(<<>>), JObject(EmptyMap), JNull>>),
          JArray(<<JNumber(15), JArray(<<>>), JObject(EmptyMap), JObject(EmptyMap)>>)}

ParseInit ==
    /\ ServerInit
    /\ value \in Values
    /\ applied = NotApplied

\* query.MakeTermTree(value).
ApplyMakeTermTree ==
    /\ applied = NotApplied
    /\ applied' = [fn |-> "MakeTermTree", r |-> MakeTermTree(value)]
    /\ UNCHANGED <<proc, pc, inbuf, out, auth, queryCache, trace, results, herr, db, value>>

\* qs.runQuery(token, value) on a queryServer as handleConnection builds it.
ApplyRunQuery ==
    /\ applied = NotApplied
    /\ \E token \in Tokens :
          applied' = [fn |-> "runQuery", token |-> token, r |-> runQuery({}, token, value)]
    /\ UNCHANGED <<proc, pc, inbuf, out, auth, queryCache, trace, results, herr, db, value>>

\* The terms MakeTermTree made on the way to t: t and the terms below it.
RECURSIVE Nodes(_)
Nodes(t) ==
    {t} \cup UNION {Nodes(t.Args[i]) : i \in 1..Len(t.Args)}
        \cup UNION {Nodes(t.OptArgs[key]) : key \in DOMAIN t.OptArgs}

\* t.returnType() of a term MakeTermTree(value) made.
ApplyReturnType ==
    /\ applied = NotApplied
    /\ MakeTermTree(value).ok
    /\ \E t \in Nodes(MakeTermTree(value).term) :
          applied' = [fn |-> "returnType", term |-> t, r |-> returnType(t)]
    /\ UNCHANGED <<proc, pc, inbuf, out, auth, queryCache, trace, results, herr, db, value>>

\* Every method of json.Value, called on value.
ApplyValueMethods ==
    /\ applied = NotApplied
    /\ applied' = [fn |-> "json.Value",
                   ValueType |-> ValueType(value),
                   IsNull |-> IsNull(value), IsBool |-> IsBool(value),
                   IsNumber |-> IsNumber(value), IsString |-> IsString(value),
                   IsArray |-> IsArray(value), IsObject |-> IsObject(value),
                   AsBool |-> AsBool(value), AsInt64 |-> AsInt64(value),
                   AsFloat64 |-> AsFloat64(value), AsString |-> AsString(value),
                   AsArray |-> AsArray(value), AsObject |-> AsObject(value)]
    /\ UNCHANGED <<proc, pc, inbuf, out, auth, queryCache, trace, results, herr, db, value>>

ParseNext == ApplyMakeTermTree \/ ApplyRunQuery \/ ApplyReturnType \/ ApplyValueMethods

ParseSpec == ParseInit /\ [][ParseNext]_vars

\* ------------------------------------------------------------------------
\* The type flags on their own: two flags are drawn, as the test of
\* IsSubTypeOf ranges over allFlags, or from the types returnTypeMap declares,
\* and first.IsSubTypeOf(second) is applied.

FlagPairs ==
    LET flags == DOMAIN allFlags \cup {returnTypeMap[type] : type \in DOMAIN returnTypeMap}
    IN  [first : flags, second : flags]

TypeInit ==
    /\ ServerInit
    /\ value \in FlagPairs
    /\ applied = NotApplied

ApplyIsSubTypeOf ==
    /\ applied = NotApplied
    /\ applied' = [fn |-> "IsSubTypeOf", r |-> IsSubTypeOf(value.first, value.second)]
    /\ UNCHANGED <<proc, pc, inbuf, out, auth, queryCache, trace, results, herr, db, value>>

TypeNext == ApplyIsSubTypeOf

TypeSpec == TypeInit /\ [][TypeNext]_vars

\* ------------------------------------------------------------------------
\* The claims.

HandshakePhases ==
    <<"magic", "greeting", "clientFirst", "serverFirst", "clientFinal", "serverFinal">>

\* A frame whose body is a START request.
IsStart(item) ==
    /\ item.k = "frame"
    /\ item.body.t = "array"
    /\ Len(item.body.a) >= 1
    /\ item.body.a[1] = JNumber(Query_START)

\* The token a frame carries, read off its bytes.
TokenOf(item) ==
    item.token[1] + 256 * item.token[2] + 65536 * item.token[3]

\* The frames the client of c has sent since the handshake, in order: those
\* handed to runQuery, then what the server has not read.
SentFrames(c) ==
    [i \in 1..Len(results[c]) |-> results[c][i].item]
    \o SelectSeq(inbuf[c], LAMBDA item : item.k = "frame")

DuplicateTokenError == <<"unable to handle query", "duplicate token">>

\* C1: on one connection, of two consecutive START frames with the same token,
\* the first accepted, the second is rejected as a duplicate: once the server
\* is done with the connection, the second has been handled and its error is
\* the duplicate-token error.
C1_DuplicateStartRejected ==
    \A c \in Conns :
        pc[c] = "closed" =>
            \A i \in 1..(Len(SentFrames(c)) - 1) :
                ( /\ IsStart(SentFrames(c)[i])
                  /\ IsStart(SentFrames(c)[i + 1])
                  /\ TokenOf(SentFrames(c)[i]) = TokenOf(SentFrames(c)[i + 1])
                  /\ i <= Len(results[c])
                  /\ results[c][i].err = NoErr )
                => ( /\ i + 1 <= Len(results[c])
                     /\ results[c][i + 1].err = DuplicateTokenError )

\* C2: a START request that passes the duplicate check (it is accepted, or its
\* term is then found malformed) leaves its token in the connection's live set.
C2_StartInsertsToken ==
    \A c \in Conns :
        \A i \in 1..Len(results[c]) :
            ( /\ IsStart(results[c][i].item)
              /\ results[c][i].err \in
                    {NoErr, <<"unable to handle query", "unable to parse term tree">>} )
            => TokenOf(results[c][i].item) \in results[c][i].live

\* The phase a handler is in, as the number of phases it has completed.
PhasesBefore(p) ==
    CASE p = "readVersion" -> 0
      [] p = "writeVersion" -> 1
      [] p = "readClientAuth" -> 2
      [] p = "writeServerAuth" -> 3
      [] p = "readClientProof" -> 4
      [] p = "writeServerSig" -> 5
      [] p = "handleQueries" -> 6

\* C3: on every connection the phases completed are, in this order, version
\* magic, greeting, client-first, server-first, client-final, server-final and
\* then only queries; a handler is in a phase only when exactly the phases
\* before it have completed; and a request is read or dispatched only after the
\* server-final message was written.
C3_HandshakeOrder ==
    \A c \in Conns :
        /\ \A i \in 1..Len(trace[c]) :
              trace[c][i] = IF i <= 6 THEN HandshakePhases[i] ELSE "query"
        /\ InFlight(c) => Len(trace[c]) = PhasesBefore(pc[c])
        /\ results[c] # <<>> => Len(trace[c]) > 6
        /\ (pc[c] = "handleQueries" \/ results[c] # <<>>) =>
              SubSeq(trace[c], 1, 6) = HandshakePhases

\* A connection that went through the six phases and a query.
C3_Witness ==
    \E c \in Conns : Len(trace[c]) = 7 /\ results[c] # <<>>

\* C10: the query loop ends only when the peer closes or an error occurs: a
\* handler that reached the query loop and has returned, returned an error.
C10_LoopEndsOnlyOnError ==
    \A c \in Conns :
        (pc[c] = "closed" /\ Authenticated(c)) => herr[c] # NoErr

\* ------------------------------------------------------------------------
\* The handshake claims.  What a claim says of a message is written here from
\* the claim, over the attributes of the string, and not with the operators of
\* the model of the code.

\* The attributes of a comma-separated string.
Attrs(str) == Split(str, ",")

HasKey(attr, key) == HasPrefix(attr, <<key, "=">>)

\* The client-final string up to its first p= attribute, that attribute left out.
BeforeProof(str) ==
    LET attrs == Attrs(str)
        first == CHOOSE i \in 1..Len(attrs) :
                    /\ HasKey(attrs[i], "p")
                    /\ \A j \in 1..(i - 1) : ~HasKey(attrs[j], "p")
    IN  Join(SubSeq(attrs, 1, first - 1), ",")

\* The client-final message begins with c=biws, and carries the server nonce
\* of the authenticator a and the proof over a's auth message completed by it.
ValidClientFinal(a, item) ==
    /\ item.k = "json"
    /\ LET str == item.m.authentication
           attrs == Attrs(str)
       IN  /\ Len(attrs) >= 2 /\ attrs[1] = <<"c", "=", "biws">>
           /\ \E i \in 2..Len(attrs) : attrs[i] = <<"r", "=">> \o a.serverNonce
           /\ \E i \in 2..Len(attrs) : HasKey(attrs[i], "p")
           /\ \E i \in 2..Len(attrs) :
                attrs[i] = <<"p", "=">>
                           \o ClientProof(a.authMessage \o <<",">> \o BeforeProof(str))

\* C4, the half that holds: the server goes on to write the server-final
\* message only after a client-final message that is valid for its connection.
C4_AcceptedOnlyIfValid ==
    [][\A c \in Conns :
          (ReadClientProof(c) /\ pc'[c] = "writeServerSig")
          => ValidClientFinal(auth[c], Head(inbuf[c]))]_vars

\* C4: a connection is authenticated only after a valid client-final message,
\* and for any other client-final message readClientAuthenticationProof returns
\* an error: the handler ends with that error and writes no server-final.
C4_InvalidFinalReturnsError ==
    [][\A c \in Conns :
          ReadClientProof(c) =>
            /\ pc'[c] = "writeServerSig" => ValidClientFinal(auth[c], Head(inbuf[c]))
            /\ (Head(inbuf[c]).k = "json" /\ ~ValidClientFinal(auth[c], Head(inbuf[c])))
               => ( /\ pc'[c] = "closed"
                    /\ herr'[c] # NoErr
                    /\ out'[c] = out[c]
                    /\ trace'[c] = trace[c] )]_vars

\* The auth message of a client that follows the protocol with this nonce, for
\* the random part rnd of the server nonce.
ProtocolAuthMessage(nonce, rnd) ==
    <<"n", "=", "admin", ",", "r", "=">> \o nonce
    \o <<",", "r", "=">> \o nonce \o <<rnd>>
    \o <<",", "s", "=", "6VRzcOVKuS8WWbOKM5Vurw==", ",", "i", "=", "4096">>
    \o <<",", "c", "=", "biws", ",", "r", "=">> \o nonce \o <<rnd>>

\* C5: the server accepts every step of a client that follows the protocol: the
\* V1_0 magic, the client-first n,,n=admin,r=<nonce> for any nonce, and the
\* client-final c=biws,r=<server nonce>,p=<proof over the auth message>; and
\* when its last write succeeds the message is v=<server signature over that
\* auth message> and the handler enters the query loop with no error.
C5_ProtocolFollowingClientAccepted ==
    [][\A c \in Conns :
          /\ (ReadVersion(c) /\ Head(inbuf[c]) = GoodMagic)
             => pc'[c] = "writeVersion"
          /\ (ReadClientAuth(c) /\ \E n \in ClientNonces : Head(inbuf[c]) = GoodClientFirst(n))
             => (pc'[c] = "writeServerAuth" /\ herr'[c] = NoErr)
          /\ (ReadClientProof(c) /\ Head(inbuf[c]) = GoodClientFinal(auth[c]))
             => (pc'[c] = "writeServerSig" /\ herr'[c] = NoErr)
          /\ (WriteServerSig(c) /\ out'[c] # out[c])
             => ( /\ pc'[c] = "handleQueries"
                  /\ herr'[c] = NoErr
                  /\ out'[c][Len(out'[c])] =
                        JsonItem([success |-> TRUE,
                                  authentication |->
                                      <<"v", "=">> \o ServerSignature(auth[c].authMessage)]) )
          /\ \A n \in ClientNonces : \A rnd \in RandomNonces :
                ( /\ pc[c] = "readClientProof"
                  /\ auth[c].authMessage =
                        SubSeq(ProtocolAuthMessage(n, rnd), 1, Len(auth[c].authMessage))
                  /\ ReadClientProof(c)
                  /\ Head(inbuf[c]) = GoodClientFinal(auth[c]) )
                => auth'[c].authMessage = ProtocolAuthMessage(n, rnd)]_vars

\* A protocol-following client with nonce b was taken into the query loop: the
\* last message written is the signature over its auth message.
C5_Witness ==
    \E c \in Conns :
        /\ pc[c] = "handleQueries"
        /\ out[c] = <<JsonItem([success |-> TRUE,
                                authentication |->
                                    <<"v", "=">> \o ServerSignature(ProtocolAuthMessage(<<"b">>, "Y"))])>>

\* A step of the handshake of c.
HandshakeStep(c) ==
    \/ ReadVersion(c) \/ WriteVersion(c) \/ ReadClientAuth(c)
    \/ WriteServerAuth(c) \/ ReadClientProof(c) \/ WriteServerSig(c)

\* C6: a step of the handshake of one connection, whatever the client sent,
\* either goes on or ends that connection's handler with an error; the process
\* keeps running and no other connection's handler is touched.
C6_HandshakeErrorIsLocal ==
    [][\A c \in Conns :
          HandshakeStep(c) =>
            /\ proc' = "running"
            /\ pc'[c] = "closed" => herr'[c] # NoErr
            /\ pc'[c] # "killed"
            /\ \A d \in Conns \ {c} : pc'[d] = pc[d]]_vars

MagicError == <<"unable to perform handshake", "unrecognized version magic number">>

\* C7: four bytes of version magic other than c3 bd c2 34 (V1_0, little-endian)
\* end the handshake with the magic-number error and the connection closed; on
\* such a connection nothing was written and nothing is written or read later,
\* and the query loop is never entered.
C7_BadMagicRejected ==
    [][\A c \in Conns :
          /\ ( /\ ReadVersion(c)
               /\ Head(inbuf[c]).k = "bytes"
               /\ Len(Head(inbuf[c]).b) = 4
               /\ Head(inbuf[c]).b # <<195, 189, 194, 52>> )
             => (pc'[c] = "closed" /\ herr'[c] = MagicError)
          /\ herr'[c] = MagicError
             => ( /\ pc'[c] = "closed"
                  /\ out'[c] = <<>>
                  /\ trace'[c] = <<>>
                  /\ results'[c] = <<>>
                  /\ inbuf'[c] = <<>> )]_vars

C7_Witness ==
    \E c \in Conns : herr[c] = MagicError /\ pc[c] = "closed"

\* An attribute that is no k=v pair, or whose key is not among keys.
HasBadAttr(str, keys) ==
    \E i \in 1..Len(Attrs(str)) :
        LET pair == SplitN2(Attrs(str)[i], "=")
        IN  Len(pair) # 2 \/ pair[1] \notin {<<k>> : k \in keys}

\* C8: the server accepts a client-first message only if its protocol_version
\* is 0, its method SCRAM-SHA-256, its authentication begins with n,, and the
\* body has an attribute n=admin and an attribute r=.
C8_ClientFirstNeedsUserAndNonce ==
    [][\A c \in Conns :
          (ReadClientAuth(c) /\ pc'[c] = "writeServerAuth") =>
            LET item == Head(inbuf[c])
                body == SubSeq(item.m.authentication, 4, Len(item.m.authentication))
            IN  /\ item.k = "json"
                /\ item.m.protocol_version = 0
                /\ item.m.authentication_method = "SCRAM-SHA-256"
                /\ SubSeq(item.m.authentication, 1, 3) = <<"n", ",", ",">>
                /\ \E i \in 1..Len(Attrs(body)) : Attrs(body)[i] = <<"n", "=", "admin">>
                /\ \E i \in 1..Len(Attrs(body)) : HasKey(Attrs(body)[i], "r")]_vars

\* C9: a client-first body with an attribute that is no k=v pair or has a key
\* other than n and r, and a client-final with such an attribute after c=biws,
\* (keys r and p), make the read step return an error: the handler ends with
\* it, and nothing more is written on the connection.
C9_UnknownAttributeAborts ==
    [][\A c \in Conns :
          LET item == Head(inbuf[c])
              str == item.m.authentication
              aborted == /\ pc'[c] = "closed"
                         /\ herr'[c] # NoErr
                         /\ out'[c] = out[c]
          IN  /\ ( /\ ReadClientAuth(c)
                   /\ item.k = "json"
                   /\ HasPrefix(str, <<"n", ",", ",">>)
                   /\ HasBadAttr(SubSeq(str, 4, Len(str)), {"n", "r"}) )
                 => aborted
              /\ ( /\ ReadClientProof(c)
                   /\ item.k = "json"
                   /\ HasPrefix(str, <<"c", "=", "biws", ",">>)
                   /\ HasBadAttr(SubSeq(str, 5, Len(str)), {"r", "p"}) )
                 => aborted
              /\ pc[c] = "closed" => (pc'[c] = "closed" /\ Len(out'[c]) <= Len(out[c]))]_vars

\* ------------------------------------------------------------------------
\* The dispatcher claims, on runQuery applied to a drawn body.

\* The number v, less its fraction if it has one, is among lo..hi.
NumberIn(v, lo, hi) ==
    v.w = 0 /\ \E n \in lo..hi : 2 * n <= v.h /\ v.h < 2 * n + 2

\* A body that is an array of 1 to 3 elements with a number first.
HasQueryType(v) ==
    v.t = "array" /\ Len(v.a) \in 1..3 /\ v.a[1].t = "number"

\* C11: startQuery is called only for a body that is an array of three
\* elements with an object third; a START body of one or two elements, or with
\* a third element that is no object, is rejected with an error, with no call
\* of startQuery (no duplicate check, no translation) and the live set as it was.
C11_StartNeedsThreeElements ==
    applied.fn = "runQuery" =>
        /\ applied.r.calls # <<>> =>
              (value.t = "array" /\ Len(value.a) = 3 /\ value.a[3].t = "object")
        /\ ( /\ HasQueryType(value)
             /\ NumberIn(value.a[1], 1, 1)
             /\ (Len(value.a) < 3 \/ value.a[3].t # "object") )
           => ( /\ applied.r.err # NoErr
                /\ applied.r.calls = <<>>
                /\ applied.r.queryCache = {} )

\* [1, 2] was rejected for its two elements.
C11_Witness ==
    /\ value = JArray(<<JNumber(1), JNumber(2)>>)
    /\ applied.fn = "runQuery"
    /\ applied.r.err = <<"expected 3 elements in top-level START query">>

\* C12: a body of 1 to 3 elements, a number first and an object third if there
\* is a third, whose query type is CONTINUE, STOP, NOREPLY_WAIT or SERVER_INFO
\* gets the not-yet-implemented error, and one whose type is outside 1..5 the
\* unrecognized-type error; no startQuery, no term tree, the live set as it was.
C12_OtherTypesNotImplemented ==
    ( /\ applied.fn = "runQuery"
      /\ HasQueryType(value)
      /\ Len(value.a) = 3 => value.a[3].t = "object"
      /\ ~NumberIn(value.a[1], 1, 1) )
    => ( /\ applied.r.err =
              IF NumberIn(value.a[1], 2, 5)
              THEN <<"query type not yet implemented">>
              ELSE <<"unrecognized QueryType">>
         /\ applied.r.calls = <<>>
         /\ applied.r.queryCache = {} )

\* ------------------------------------------------------------------------
\* The claims on the handler's exits and on the live token sets.

\* Where a running handler stands.
HandlerSteps ==
    {"readVersion", "writeVersion", "readClientAuth", "writeServerAuth",
     "readClientProof", "writeServerSig", "handleQueries"}

\* C13: every step of a connection's handler that ends the handler (handshake
\* failure, read error or end of stream, JSON decode failure, query or term
\* failure, normal return) leaves the connection closed; and once it is
\* closed, after a decode or translate failure as after any other exit, no
\* request is handled on it and nothing is written to it.
C13_EveryExitCloses ==
    [][\A c \in Conns :
          /\ ( /\ HandshakeStep(c) \/ HandleQueries(c)
               /\ pc'[c] \notin HandlerSteps )
             => pc'[c] = "closed"
          /\ ( /\ HandleQueries(c)
               /\ herr'[c] # NoErr )
             => pc'[c] = "closed"
          /\ pc[c] = "closed"
             => ( /\ pc'[c] = "closed"
                  /\ results'[c] = results[c]
                  /\ trace'[c] = trace[c]
                  /\ out'[c] \in {out[c], <<>>} )]_vars

\* A connection closed after a body that is no JSON, one closed after a term
\* that does not translate, and a frame sent after the close and never read.
C13_Witness ==
    \E c \in Conns :
        /\ pc[c] = "closed"
        /\ herr[c] \in {<<"unable to handle queries", "unable to JSON parse query">>,
                        <<"unable to handle queries", "unable to handle query",
                          "unable to parse term tree">>}
        /\ inbuf[c] # <<>> /\ inbuf[c][1].k = "frame"

\* C14: a START is rejected as a duplicate only for a START with the same
\* token accepted earlier on the same connection, whatever the other
\* connections did; and a dispatcher's step leaves the live set of every other
\* connection as it was.
C14_TokenSetsPerConnection ==
    [][\A c \in Conns :
          HandleQueries(c) =>
            /\ \A d \in Conns \ {c} : queryCache'[d] = queryCache[d]
            /\ \A i \in 1..Len(results'[c]) :
                  results'[c][i].err = DuplicateTokenError
                  => \E j \in 1..(i - 1) :
                        /\ IsStart(results'[c][j].item)
                        /\ TokenOf(results'[c][j].item) = TokenOf(results'[c][i].item)
                        /\ results'[c][j].err = NoErr]_vars

\* Two connections each had a START with token 42 accepted.
C14_Witness ==
    \E c, d \in Conns :
        /\ c # d
        /\ \A e \in {c, d} :
              /\ results[e] # <<>>
              /\ IsStart(results[e][1].item)
              /\ TokenOf(results[e][1].item) = 42
              /\ results[e][1].err = NoErr

\* C15: a token is not in the live set once its query has errored, nor once
\* the connection is closed or its handler gone.
C15_NoTokenAfterTerminal ==
    \A c \in Conns :
        /\ pc[c] \in {"closed", "killed"} => queryCache[c] = {}
        /\ \A i \in 1..Len(results[c]) :
              results[c][i].err # NoErr
              => TokenOf(results[c][i].item) \notin results[c][i].live

\* A START whose term did not translate: its query errored.
C15_Witness ==
    \E c \in Conns :
        /\ pc[c] = "closed"
        /\ results[c] # <<>>
        /\ IsStart(results[c][1].item)
        /\ results[c][1].err = <<"unable to handle query", "unable to parse term tree">>

\* ------------------------------------------------------------------------
\* The term claims, on MakeTermTree applied to a drawn value.

Made == applied.fn = "MakeTermTree"

\* The Term invariant at every node of a tree.
RECURSIVE TermInvariant(_)
TermInvariant(t) ==
    /\ t.Type = 1 => (t.Args = <<>> /\ DOMAIN t.OptArgs = {} /\ t.Datum.t # "nil")
    /\ t.Type # 1 => t.Datum.t = "nil"
    /\ \A i \in 1..Len(t.Args) : TermInvariant(t.Args[i])
    /\ \A key \in DOMAIN t.OptArgs : TermInvariant(t.OptArgs[key])

\* C16: every node of every tree MakeTermTree returns satisfies the Term
\* invariant: a DATUM node has no arguments, no options and an embedded
\* value; any other node has no embedded value.
C16_TermInvariantHolds ==
    (Made /\ applied.r.ok) => TermInvariant(applied.r.term)

\* C17: for a value that is null, a boolean, a number or a string,
\* MakeTermTree succeeds with a DATUM term that embeds the value and has no
\* arguments and no options.
C17_ScalarIsDatum ==
    (Made /\ value.t \in {"null", "boolean", "number", "string"})
    => applied.r = [ok |-> TRUE,
                    term |-> [Type |-> 1, Args |-> <<>>, OptArgs |-> << >>,
                              Datum |-> value]]

\* The string "foo" and the number 1.5 were translated.
C17_Witness ==
    Made /\ applied.r.ok /\ value \in {JString("foo"), JNumberHalves(3)}

\* The entries of an object all translate.
EntriesTranslate(o) == \A key \in DOMAIN o : MakeTermTree(o[key]).ok

\* C18 as stated: for any JSON object, MakeTermTree returns a MAKE_OBJ term
\* whose options have exactly the object's keys, with no arguments and no
\* embedded value.
C18_AnyObjectIsMakeObj ==
    (Made /\ value.t = "object")
    => ( /\ applied.r.ok
         /\ applied.r.term.Type = 3
         /\ DOMAIN applied.r.term.OptArgs = DOMAIN value.o
         /\ applied.r.term.Args = <<>>
         /\ applied.r.term.Datum.t = "nil" )

\* C18, amended: for a JSON object whose entries all translate, MakeTermTree
\* returns a MAKE_OBJ term whose options have exactly the object's keys, each
\* mapped to the translation of its entry, with no arguments and no embedded
\* value; for an object with an entry that does not translate it returns an
\* error and no term.
C18_ObjectIsMakeObj ==
    (Made /\ value.t = "object")
    => IF EntriesTranslate(value.o)
       THEN /\ applied.r.ok
            /\ applied.r.term.Type = 3
            /\ DOMAIN applied.r.term.OptArgs = DOMAIN value.o
            /\ \A key \in DOMAIN value.o :
                  applied.r.term.OptArgs[key] = MakeTermTree(value.o[key]).term
            /\ applied.r.term.Args = <<>>
            /\ applied.r.term.Datum.t = "nil"
       ELSE /\ ~applied.r.ok
            /\ "term" \notin DOMAIN applied.r

\* {"a": 1, "b": [15]} was translated.
C18_Witness ==
    /\ Made /\ applied.r.ok
    /\ value = JObject([key \in {"a", "b"} |->
                           IF key = "a" THEN JNumber(1) ELSE JArray(<<JNumber(15)>>)])

\* An array that has 1 to 3 elements, a number first, an array second and an
\* object third, as far as they are there.
ShapeOk(v) ==
    /\ v.t = "array" /\ Len(v.a) \in 1..3
    /\ v.a[1].t = "number"
    /\ Len(v.a) >= 2 => v.a[2].t = "array"
    /\ Len(v.a) = 3 => v.a[3].t = "object"

\* The entries of element 1 and of element 2 of a term array, if any.
ArgsOf(v) == IF Len(v.a) >= 2 /\ v.a[2].t = "array" THEN v.a[2].a ELSE <<>>
OptsOf(v) == IF Len(v.a) = 3 /\ v.a[3].t = "object" THEN v.a[3].o ELSE << >>

FailingArgs(v) == {i \in 1..Len(ArgsOf(v)) : ~MakeTermTree(ArgsOf(v)[i]).ok}
FailingOpts(v) == {key \in DOMAIN OptsOf(v) : ~MakeTermTree(OptsOf(v)[key]).ok}

\* The error e of a nested translation, under one more level of context.
Nested(context, e) == [msg |-> e.msg, ctx |-> <<context>> \o e.ctx]

\* C19: MakeTermTree returns an error and no term for an array of no element
\* or more than three, with an element 0 that is no number, an element 1 that
\* is no array, an element 2 that is no object, or with an entry of element 1
\* or 2 whose translation fails; the error of a failing entry is handed on
\* under the context of the operator and arg[i] (the first failing i) or
\* optArg["key"] (a failing key).
C19_MalformedArrayIsError ==
    (Made /\ value.t = "array")
    => /\ (~ShapeOk(value) \/ FailingArgs(value) # {} \/ FailingOpts(value) # {})
          => (~applied.r.ok /\ "term" \notin DOMAIN applied.r /\ applied.r.errs # {})
       /\ (Len(value.a) = 0 \/ Len(value.a) > 3)
          => applied.r.errs = {[msg |-> "expected 1 to 3 entries in term array", ctx |-> <<>>]}
       /\ (Len(value.a) \in 1..3 /\ value.a[1].t # "number")
          => applied.r.errs = {[msg |-> "expected term type to be number", ctx |-> <<>>]}
       /\ (ShapeOk(value) /\ FailingArgs(value) # {})
          => LET i == CHOOSE j \in FailingArgs(value) : \A k \in FailingArgs(value) : j <= k
                 context == [kind |-> "arg", op |-> TermTypeName(Int32(AsInt64(value.a[1]))),
                             i |-> i - 1]
             IN  applied.r.errs = {Nested(context, e) : e \in MakeTermTree(ArgsOf(value)[i]).errs}
       /\ (ShapeOk(value) /\ FailingArgs(value) = {} /\ FailingOpts(value) # {})
          => \A e \in applied.r.errs :
                \E key \in FailingOpts(value) :
                \E inner \in MakeTermTree(OptsOf(value)[key]).errs :
                    e = Nested([kind |-> "optArg",
                                op |-> TermTypeName(Int32(AsInt64(value.a[1]))),
                                key |-> key], inner)

\* [15, [1, [15, [[]]]]]: the error of the empty array comes back under the
\* context of TABLE arg[1] and TABLE arg[0].
C19_Witness ==
    /\ Made
    /\ value = JArray(<<JNumber(15),
                        JArray(<<JNumber(1),
                                 JArray(<<JNumber(15), JArray(<<JArray(<<>>)>>)>>)>>)>>)
    /\ applied.r.errs =
          {[msg |-> "expected 1 to 3 entries in term array",
            ctx |-> <<[kind |-> "arg", op |-> "TABLE", i |-> 1],
                      [kind |-> "arg", op |-> "TABLE", i |-> 0]>>]}

\* The integer n is the number v less its fraction (for a number beyond 32
\* bits, its low 32 bits).
TruncatedTo(v, n) ==
    IF v.h >= 0 THEN 2 * n <= v.h /\ v.h < 2 * n + 2
    ELSE 2 * n >= v.h /\ v.h > 2 * n - 2

\* C20: for an array that passes the shape checks, its entries translating,
\* MakeTermTree returns a term whose tag is the integer cast of element 0
\* whatever the number, whose arguments are the translations of the entries of
\* element 1 in their order and number (none without element 1), whose options
\* have exactly the keys of element 2, each the translation of its entry, and
\* which has no embedded value.
C20_ArrayIsOperatorTerm ==
    ( /\ Made
      /\ ShapeOk(value)
      /\ FailingArgs(value) = {} /\ FailingOpts(value) = {} )
    => /\ applied.r.ok
       /\ TruncatedTo(value.a[1], applied.r.term.Type)
       /\ Len(applied.r.term.Args) = Len(ArgsOf(value))
       /\ \A i \in 1..Len(ArgsOf(value)) :
             applied.r.term.Args[i] = MakeTermTree(ArgsOf(value)[i]).term
       /\ DOMAIN applied.r.term.OptArgs = DOMAIN OptsOf(value)
       /\ \A key \in DOMAIN OptsOf(value) :
             applied.r.term.OptArgs[key] = MakeTermTree(OptsOf(value)[key]).term
       /\ applied.r.term.Datum.t = "nil"

\* [999, [1, [15]]] gave a term of an operator no table holds, with two
\* arguments, the second a TABLE term with no argument.
C20_Witness ==
    /\ Made /\ applied.r.ok
    /\ value = JArray(<<JNumber(999), JArray(<<JNumber(1), JArray(<<JNumber(15)>>)>>)>>)
    /\ applied.r.term.Type = 999
    /\ Len(applied.r.term.Args) = 2
    /\ applied.r.term.Args[2].Args = <<>>

\* ------------------------------------------------------------------------
\* The result type of a term.

Typed == applied.fn = "returnType"

DatumOf(v) == Term(Term_DATUM, <<>>, EmptyMap, v)

\* C21, as the claim states it: where the result type of the term made of
\* [15,[[14,["db"]],"users"]] was asked for, the term has operator TABLE and one
\* positional argument, a DB term with one string argument, and its result
\* type is Table; and runQuery accepts the START query of that term.
C21_TableLookupOneArgument ==
    /\ (Typed /\ value = TableLookupTerm /\ applied.term = MakeTermTree(value).term) =>
          /\ applied.term.Type = Term_TABLE
          /\ Len(applied.term.Args) = 1
          /\ applied.term.Args[1].Type = Term_DB
          /\ Len(applied.term.Args[1].Args) = 1
          /\ applied.term.Args[1].Args[1] = DatumOf(JString("db"))
          /\ applied.r = Returns(Table)
    /\ (applied.fn = "runQuery" /\ value = TableLookupBody) =>
          /\ AsArray(value)[2] = TableLookupTerm
          /\ applied.r.err = NoErr
          /\ applied.r.calls = <<"startQuery", "MakeTermTree">>

\* C21, amended: the term has operator TABLE and two positional arguments,
\* the first a DB term with the one string argument "db" and the second the
\* string datum "users"; it has no named options, and its result type is
\* Table; and runQuery accepts the START query of that term.
C21_TableLookupTerm ==
    /\ (Typed /\ value = TableLookupTerm /\ applied.term = MakeTermTree(value).term) =>
          /\ applied.term.Type = Term_TABLE
          /\ Len(applied.term.Args) = 2
          /\ applied.term.OptArgs = EmptyMap
          /\ applied.term.Args[1].Type = Term_DB
          /\ Len(applied.term.Args[1].Args) = 1
          /\ applied.term.Args[1].Args[1] = DatumOf(JString("db"))
          /\ applied.term.Args[2] = DatumOf(JString("users"))
          /\ applied.r = Returns(Table)
    /\ (applied.fn = "runQuery" /\ value = TableLookupBody) =>
          /\ AsArray(value)[2] = TableLookupTerm
          /\ applied.r.err = NoErr
          /\ applied.r.calls = <<"startQuery", "MakeTermTree">>

C21_Witness ==
    /\ Typed
    /\ value = TableLookupTerm
    /\ applied.term.Type = Term_TABLE
    /\ applied.r = Returns(Table)

\* The flag of a JSON value, as the claim lists them.
FlagOfValue(v) ==
    CASE v.t = "null" -> Null
      [] v.t = "boolean" -> Bool
      [] v.t = "number" -> Number
      [] v.t = "string" -> String
      [] v.t = "object" -> Object
      [] v.t = "array" -> Array
      [] OTHER -> NoType

\* C22: for every term MakeTermTree made, returnType does not fail; for a term
\* of operator DATUM it is the flag of the embedded value, for any other term
\* the type returnTypeMap declares for its operator, which is no type for
\* JAVASCRIPT, HTTP, ERROR and an operator the map does not hold.
C22_ReturnTypeDefined ==
    Typed =>
        /\ ~applied.r.panic
        /\ applied.term.Type = Term_DATUM =>
              /\ applied.term.Datum.t \in {"null", "boolean", "number", "string", "object", "array"}
              /\ applied.r.type = FlagOfValue(applied.term.Datum)
        /\ applied.term.Type # Term_DATUM =>
              /\ applied.term.Type \in DOMAIN returnTypeMap =>
                    applied.r.type = returnTypeMap[applied.term.Type]
              /\ applied.term.Type \notin DOMAIN returnTypeMap => applied.r.type = NoType
              /\ applied.term.Type \in {Term_JAVASCRIPT, Term_HTTP, Term_ERROR} =>
                    applied.r.type = NoType

\* ------------------------------------------------------------------------
\* The type flags.

SubTyped == applied.fn = "IsSubTypeOf"

TypeFlags == DOMAIN allFlags

\* C23: over the flags of the enumeration, first.IsSubTypeOf(second) is true
\* for the 48 pairs the test expects and for no other; so a flag is a subtype
\* of itself, two flags that are subtypes of each other are equal, and a
\* subtype of a subtype of a flag is a subtype of that flag.
C23_SubTypePairs ==
    (SubTyped /\ value.first \in TypeFlags /\ value.second \in TypeFlags) =>
        /\ Cardinality(expectations) = 48
        /\ applied.r = (<<value.first, value.second>> \in expectations)
        /\ value.first = value.second => applied.r
        /\ (applied.r /\ <<value.second, value.first>> \in expectations) =>
              value.first = value.second
        /\ \A third \in TypeFlags :
              (applied.r /\ <<value.second, third>> \in expectations) =>
                  <<value.first, third>> \in expectations

C23_Witness ==
    /\ SubTyped
    /\ value = [first |-> Table, second |-> Stream]
    /\ applied.r

\* The flags t and u are both subtypes of.
CommonSuperTypes(t, u) == {k \in TypeFlags : IsSubTypeOf(t, k) /\ IsSubTypeOf(u, k)}

\* The least upper bounds of t and u: the common supertypes that every
\* common supertype is a supertype of.
Joins(t, u) ==
    {j \in CommonSuperTypes(t, u) : \A k \in CommonSuperTypes(t, u) : IsSubTypeOf(j, k)}

\* C24, as the claim states it: every two flags of the enumeration have a
\* least upper bound among the flags of the enumeration.
C24_EveryPairHasJoin ==
    (SubTyped /\ value.first \in TypeFlags /\ value.second \in TypeFlags) =>
        Joins(value.first, value.second) # {}

\* C24, amended: every two flags of the enumeration that have a common
\* supertype among the flags have exactly one least upper bound among them,
\* and it is the second flag where the first is a subtype of the second.
C24_BoundedPairHasJoin ==
    (SubTyped /\ value.first \in TypeFlags /\ value.second \in TypeFlags) =>
        /\ CommonSuperTypes(value.first, value.second) # {} =>
              Cardinality(Joins(value.first, value.second)) = 1
        /\ applied.r => Joins(value.first, value.second) = {value.second}

C24_Witness ==
    /\ SubTyped
    /\ value = [first |-> Array, second |-> Stream]
    /\ ~applied.r
    /\ Joins(value.first, value.second) = {Sequence}

\* C30: for an operator whose declared type joins flags with |, the declared
\* type is a subtype of each of the flags joined, and, where two or more
\* flags are joined, none of them is a subtype of the declared type.
C30_UnionIsSubTypeOfMembers ==
    SubTyped =>
        \A type \in DOMAIN returnTypeOperands :
            \A member \in returnTypeOperands[type] :
                /\ value = [first |-> returnTypeMap[type], second |-> member] => applied.r
                /\ (/\ Cardinality(returnTypeOperands[type]) >= 2
                    /\ value = [first |-> member, second |-> returnTypeMap[type]]) =>
                      ~applied.r

C30_Witness ==
    /\ SubTyped
    /\ value = [first |-> returnTypeMap[Term_ADD], second |-> Time]
    /\ returnTypeOperands[Term_ADD] = {Number, String, Time}
    /\ applied.r

\* ------------------------------------------------------------------------
\* The methods of json.Value.

\* C25: of the six predicates exactly one is true of a value, the one of its
\* variant, and each accessor returns what the value holds where the variant
\* is the accessor's (for AsInt64 the number without its fraction) and false,
\* 0, "", or nothing otherwise.
C25_ValueMethodsTotal ==
    applied.fn = "json.Value" =>
        /\ Cardinality({p \in {"IsNull", "IsBool", "IsNumber", "IsString", "IsArray", "IsObject"} :
                           applied[p]}) = 1
        /\ applied.IsNull = (value.t = "null")
        /\ applied.IsBool = (value.t = "boolean")
        /\ applied.IsNumber = (value.t = "number")
        /\ applied.IsString = (value.t = "string")
        /\ applied.IsArray = (value.t = "array")
        /\ applied.IsObject = (value.t = "object")
        /\ applied.AsBool = IF value.t = "boolean" THEN value.b ELSE FALSE
        /\ applied.AsString = IF value.t = "string" THEN value.s ELSE ""
        /\ applied.AsArray = IF value.t = "array" THEN value.a ELSE <<>>
        /\ applied.AsObject = IF value.t = "object" THEN value.o ELSE EmptyMap
        /\ applied.AsFloat64 = IF value.t = "number" THEN [w |-> value.w, h |-> value.h]
                               ELSE [w |-> 0, h |-> 0]
        /\ value.t # "number" => applied.AsInt64 = [w |-> 0, n |-> 0]
        /\ value.t = "number" =>
              /\ applied.AsInt64.w = value.w
              /\ 2 * applied.AsInt64.n \in
                    {value.h, IF value.h > 0 THEN value.h - 1 ELSE value.h + 1}

C25_Witness ==
    /\ applied.fn = "json.Value"
    /\ value = JNumberHalves(-3)
    /\ applied.AsInt64 = [w |-> 0, n |-> -1]
    /\ applied.AsString = ""
    /\ applied.IsNumber

\* ------------------------------------------------------------------------
\* The handshake: the auth message, the server nonce, and what is written.

\* The message a step of the server wrote last.
Written(c) == out'[c][Len(out'[c])].m

\* The authentication string of the message at the head of the stream of c.
Received(c) == Head(inbuf[c]).m.authentication

\* The part of str before the first place where sub begins; str has one.
Preceding(str, sub) ==
    LET at == {i \in 1..(Len(str) - Len(sub) + 1) : SubSeq(str, i, i + Len(sub) - 1) = sub}
        first == CHOOSE i \in at : \A j \in at : i <= j
    IN  SubSeq(str, 1, first - 1)

\* The value of the p= attribute of a client-final string.
ProofOf(str) ==
    LET attrs == Attrs(str)
        i == CHOOSE j \in 1..Len(attrs) : HasKey(attrs[j], "p")
    IN  SubSeq(attrs[i], 3, Len(attrs[i]))

\* C26: step by step, the auth message is the client-first body (the string
\* received without n,,), then "," and the string written in server-first, then
\* "," and the client-final string up to its first ,p=; an accepted proof is the
\* proof over that auth message, a proof over the auth message without the
\* client-final part is rejected, the server signature is computed over the
\* same auth message and it is what server-final carries; no other step changes
\* the auth message of a handler.
C26_AuthMessageAccumulates ==
    [][\A c \in Conns :
          /\ (ReadClientAuth(c) /\ pc'[c] = "writeServerAuth") =>
                /\ SubSeq(Received(c), 1, 3) = <<"n", ",", ",">>
                /\ auth'[c].authMessage = SubSeq(Received(c), 4, Len(Received(c)))
          /\ (WriteServerAuth(c) /\ pc'[c] = "readClientProof") =>
                auth'[c].authMessage =
                    auth[c].authMessage \o <<",">> \o Written(c).authentication
          /\ (ReadClientProof(c) /\ pc'[c] = "writeServerSig") =>
                /\ auth'[c].authMessage =
                      auth[c].authMessage \o <<",">>
                      \o Preceding(Received(c), <<",", "p", "=">>)
                /\ ProofOf(Received(c)) = ClientProof(auth'[c].authMessage)
                /\ auth'[c].serverSignature = ServerSignature(auth'[c].authMessage)
          /\ (ReadClientProof(c) /\ Head(inbuf[c]) = WrongProofFinal(auth[c])) =>
                /\ pc'[c] = "closed"
                /\ herr'[c] = <<"unable to perform handshake",
                                "unable to read client authentication proof",
                                "invalid client proof">>
          /\ (WriteServerSig(c) /\ pc'[c] = "handleQueries") =>
                Written(c).authentication =
                    <<"v", "=">> \o ServerSignature(auth[c].authMessage)
          /\ pc'[c] = pc[c] => auth'[c] = auth[c]]_vars

\* A handler about to write server-final after a client that followed the
\* protocol with the nonce b.
C26_Witness ==
    \E c \in Conns :
        /\ pc[c] = "writeServerSig"
        /\ auth[c].authMessage = ProtocolAuthMessage(<<"b">>, "Y")
        /\ auth[c].serverSignature = ServerSignature(ProtocolAuthMessage(<<"b">>, "Y"))

\* The values of the r= attributes of a string, in order.
NoncesOf(str) ==
    LET rs == SelectSeq(Attrs(str), LAMBDA attr : HasKey(attr, "r"))
    IN  [i \in 1..Len(rs) |-> SubSeq(rs[i], 3, Len(rs[i]))]

\* C27: the client nonce is the value of the last r= attribute of the
\* client-first body; the server nonce is the client nonce followed by the
\* encoding of the random bytes, it is what the r= attribute of server-first
\* carries, and it is set once, by the write of server-first after client-first
\* was accepted; a client-final is accepted only if each of its r= attributes
\* carries the server nonce, and is rejected for its nonce only if one does not.
C27_ServerNonce ==
    [][\A c \in Conns :
          /\ (ReadClientAuth(c) /\ pc'[c] = "writeServerAuth") =>
                LET nonces == NoncesOf(SubSeq(Received(c), 4, Len(Received(c))))
                IN  auth'[c].clientNonce =
                        IF nonces = <<>> THEN <<>> ELSE nonces[Len(nonces)]
          /\ (WriteServerAuth(c) /\ pc'[c] = "readClientProof") =>
                /\ \E rnd \in RandomNonces :
                      auth'[c].serverNonce = auth[c].clientNonce \o <<rnd>>
                /\ HasPrefix(auth'[c].serverNonce, auth[c].clientNonce)
                /\ auth'[c].clientNonce = auth[c].clientNonce
                /\ NoncesOf(Written(c).authentication) = <<auth'[c].serverNonce>>
          /\ auth'[c].serverNonce # auth[c].serverNonce =>
                \/ auth'[c] = NewAuthenticator
                \/ /\ pc[c] = "writeServerAuth"
                   /\ trace[c] = <<"magic", "greeting", "clientFirst">>
                   /\ auth[c].serverNonce = <<>>
          /\ (ReadClientProof(c) /\ pc'[c] = "writeServerSig") =>
                /\ NoncesOf(Received(c)) # <<>>
                /\ \A i \in 1..Len(NoncesOf(Received(c))) :
                      NoncesOf(Received(c))[i] = auth[c].serverNonce
          /\ (/\ ReadClientProof(c)
              /\ herr'[c] = <<"unable to perform handshake",
                              "unable to read client authentication proof",
                              "invalid server nonce">>) =>
                \E i \in 1..Len(NoncesOf(Received(c))) :
                    NoncesOf(Received(c))[i] # auth[c].serverNonce]_vars

\* A handler that has written server-first for the client nonce b.
C27_Witness ==
    \E c \in Conns :
        /\ pc[c] = "readClientProof"
        /\ auth[c].clientNonce = <<"b">>
        /\ auth[c].serverNonce = <<"b", "Y">>
        /\ out[c] = <<JsonItem(ServerAuthenticationMessage(
                         <<"r", "=", "b", "Y", ",", "s", "=", "6VRzcOVKuS8WWbOKM5Vurw==",
                           ",", "i", "=", "4096">>))>>

\* C29: the server writes only while no step of the handler has failed, one
\* message per step, each a JSON message with success true: the greeting as
\* the first write, after the magic; server-first as the second, after
\* client-first; server-final as the third, after client-final; a step that
\* fails writes nothing, and nothing is written after it.
C29_WritesArePrefix ==
    [][\A c \in Conns :
          /\ out'[c] # out[c] =>
                \/ out'[c] = <<>>
                \/ /\ out'[c] = Append(out[c], JsonItem(Written(c)))
                   /\ herr[c] = NoErr
                   /\ herr'[c] = NoErr
                   /\ Written(c).success
                   /\ pc[c] \in {"writeVersion", "writeServerAuth", "writeServerSig"}
                   /\ pc[c] = "writeVersion" =>
                         /\ trace[c] = <<"magic">>
                         /\ Written(c) = [success |-> TRUE, min_protocol_version |-> 0,
                                          max_protocol_version |-> 0,
                                          server_version |-> "ReboltDB 0.1.0"]
                   /\ pc[c] = "writeServerAuth" =>
                         /\ trace[c] = <<"magic", "greeting", "clientFirst">>
                         /\ Written(c) =
                               [success |-> TRUE,
                                authentication |->
                                    <<"r", "=">> \o auth'[c].serverNonce
                                    \o <<",", "s", "=", "6VRzcOVKuS8WWbOKM5Vurw==",
                                         ",", "i", "=", "4096">>]
                   /\ pc[c] = "writeServerSig" =>
                         /\ trace[c] = SubSeq(HandshakePhases, 1, 5)
                         /\ Written(c) =
                               [success |-> TRUE,
                                authentication |-> <<"v", "=">> \o auth[c].serverSignature]
          /\ (herr[c] = NoErr /\ herr'[c] # NoErr) =>
                (out'[c] = out[c] /\ pc'[c] = "closed")
          /\ pc[c] \in {"closed", "killed"} =>
                (pc'[c] = pc[c] /\ (out'[c] = out[c] \/ out'[c] = <<>>))]_vars

\* A handshake that failed at the client-final message, after two writes the
\* client has read.
C29_Witness ==
    \E c \in Conns :
        /\ pc[c] = "closed"
        /\ trace[c] = <<"magic", "greeting", "clientFirst", "serverFirst">>
        /\ herr[c] = <<"unable to perform handshake",
                       "unable to read client authentication proof",
                       "invalid client proof">>
        /\ out[c] = <<>>

\* ------------------------------------------------------------------------
\* The frames of the query loop.

\* The size field of a frame, read off its four bytes.
SizeOf(item) ==
    item.size[1] + 256 * item.size[2] + 65536 * item.size[3] + 16777216 * item.size[4]

\* The bytes of the stream of c that the step left unread.
LeftUnread(c) ==
    IF inbuf'[c] # <<>> /\ inbuf'[c][1].k = "unread" THEN inbuf'[c][1].n ELSE 0

\* C28: of a frame, handleQueries takes 12 + size bytes off the stream, size
\* being the 4 bytes after the 8 of the token read as a little-endian number,
\* and a request it hands to runQuery has the token those 8 bytes are in
\* little-endian order; of a frame the client cut short of 12 + size bytes it
\* returns a read error and hands nothing to runQuery.
C28_FrameReads ==
    [][\A c \in Conns :
          (HandleQueries(c) /\ Head(inbuf[c]).k = "frame") =>
            LET item == Head(inbuf[c])
            IN  IF Len(item.token) = 8 /\ Len(item.size) = 4 /\ item.sent >= SizeOf(item)
                THEN /\ FrameBytes(item) - LeftUnread(c) = 12 + SizeOf(item)
                     /\ results'[c] # results[c] =>
                           /\ results'[c] = Append(results[c], results'[c][Len(results'[c])])
                           /\ results'[c][Len(results'[c])].token = TokenOf(item)
                     /\ (herr'[c] # NoErr /\ results'[c] = results[c]) =>
                           herr'[c] = <<"unable to handle queries", "unable to JSON parse query">>
                ELSE /\ herr'[c] # NoErr
                     /\ herr'[c][1] = "unable to handle queries"
                     /\ herr'[c][2] \in {"unable to read query token into buffer",
                                         "unable to read query size into buffer",
                                         "unable to read query into buffer"}
                     /\ results'[c] = results[c]
                     /\ LeftUnread(c) = 0]_vars

\* A frame of 20 bytes with a size of 3 was read: 5 bytes are left.
C28_Witness ==
    \E c \in Conns :
        /\ pc[c] = "closed"
        /\ inbuf[c] = <<[k |-> "unread", n |-> 5]>>
        /\ herr[c] = <<"unable to handle queries", "unable to JSON parse query">>

\* ------------------------------------------------------------------------
\* C31: when Accept returns an error the process ends by log.Fatalf: every
\* handler in flight is ended where it stands, none of them closes its
\* connection, the store is not closed, and nothing is accepted or done
\* afterwards; a successful Accept starts exactly one handler, at the
\* beginning of handleConnection, leaves every other handler as it was and
\* leaves the process running, and while the process runs the listener can
\* accept again (in the model: as long as one of the NumConns connections has
\* not been used).
C31_AcceptOrFatal ==
    /\ [][/\ (proc = "running" /\ proc' = "fatal") =>
               /\ \A c \in Conns : InFlight(c) => pc'[c] = "killed"
               /\ \A c \in Conns : ~InFlight(c) => pc'[c] = pc[c]
               /\ db' = "open"
          /\ proc = "fatal" => (proc' = proc /\ pc' = pc /\ db' = db)
          /\ \A c \in Conns :
                (pc[c] = "idle" /\ pc'[c] # "idle") =>
                   /\ pc'[c] = "readVersion"
                   /\ \A d \in Conns \ {c} : pc'[d] = pc[d]
                   /\ proc' = "running"
                   /\ db' = "open"]_vars
    /\ []((proc = "running" /\ \E c \in Conns : pc[c] = "idle") => ENABLED Accept)

\* Every connection was accepted, and then Accept failed: all the handlers
\* were ended in flight, none closed its connection and the store is open.
C31_Witness ==
    /\ proc = "fatal"
    /\ \A c \in Conns : pc[c] = "killed"
    /\ db = "open"

\* ------------------------------------------------------------------------
\* The server with its scheduling: a handler goroutine that can take a step
\* takes it in the end, and so does a peer that can send (its next message, or
\* the close of the connection).  Nothing is assumed of Accept.

\* A step of the handler of c.
HandlerStep(c) == HandshakeStep(c) \/ HandleQueries(c)

\* The peer of c sends what the handler's pending read waits for, or closes.
PeerStep(c) ==
    \/ ClientSendMagic(c) \/ ClientSendFirst(c)
    \/ ClientSendFinal(c) \/ ClientSendFrame(c)

\* The reads of the handler: bufio's ReadBytes in the handshake, io.ReadFull
\* in handleQueries.
ReadSteps == {"readVersion", "readClientAuth", "readClientProof", "handleQueries"}

\* The handler of c stands at a read the peer has sent nothing for.
AtPendingRead(c) == proc = "running" /\ pc[c] \in ReadSteps /\ inbuf[c] = <<>>

\* The handler of c can take a step: it stands at a write, or at a read that
\* has something to read.  This is ENABLED <<HandlerStep(c)>>_vars.
HandlerReady(c) ==
    /\ proc = "running"
    /\ pc[c] \in HandlerSteps
    /\ pc[c] \in ReadSteps => inbuf[c] # <<>>

\* Weak fairness of the peer's step and of the handler's step, the latter
\* written out as WF_vars(HandlerStep(c)) is defined, with HandlerReady(c) for
\* its ENABLED.
Fairness ==
    \A c \in Conns :
        /\ WF_vars(PeerStep(c))
        /\ []<>(~HandlerReady(c)) \/ []<><<HandlerStep(c)>>_vars

FairSpec == Init /\ [][Next]_vars /\ Fairness

\* C32 as stated: with a peer that in the end sends or closes, every handler
\* in flight in the end has closed its connection.
C32_HandlerCloses ==
    \A c \in Conns : InFlight(c) ~> (pc[c] = "closed")

\* C32, amended: with a peer that in the end sends or closes, every handler in
\* flight in the end has returned and closed its connection, or the process
\* has ended and the handler with it; and no read times out: a handler at a
\* read the peer has sent nothing for has no step to take.
C32_HandlerEnds ==
    /\ \A c \in Conns :
          InFlight(c) ~> (pc[c] = "closed" \/ (pc[c] = "killed" /\ proc # "running"))
    /\ [](\A c \in Conns : AtPendingRead(c) => ~ENABLED HandlerStep(c))

\* One handler went through the handshake and a query and closed its
\* connection while another is still at the first read of its handshake.
C32_Witness ==
    \E c, d \in Conns :
        /\ pc[c] = "closed" /\ Len(results[c]) = 1 /\ herr[c] = NoErr
        /\ AtPendingRead(d) /\ pc[d] = "readVersion"

====
